---- MODULE Spec2Model ----
(***************************************************************************)
(* Model of the inspection report generator (create_form.py, app.py).      *)
(*                                                                         *)
(* Two parts of the program are modelled:                                  *)
(*   - the markup layout engine generate_latex_body, as the traversal of   *)
(*     sections -> line items -> comments -> photos it performs, one       *)
(*     action per loop iteration (LayoutSpec);                             *)
(*   - the asset fetcher: generate_pdf_from_json up to the layout call,    *)
(*     download_images_background and the fetch tasks it gathers, over     *)
(*     the module globals IMAGE_CACHE and IMAGE_DIR and the file system    *)
(*     (FetchSpec: overlapping runs, RunSpec: one run, CallSpec: calls of  *)
(*     download_image_async for arbitrary URL lists).                      *)
(*                                                                         *)
(* Strings the code transforms (names, titles, labels, values, captions,   *)
(* numerals) are sequences of one-character strings.  Python None is None  *)
(* for atom-valued fields and NoneSeq for sequence-valued ones.            *)
(***************************************************************************)
EXTENDS Integers, Sequences, FiniteSets, TLC

\* ------------------------------------------------------------------ bounds
MaxSections == 4
MaxItems == 2
MaxComments == 2
MaxPhotos == 2
MaxRuns == 2
MaxRefs == 2
MaxBlockPhotos == 5
MaxClock == 2
MaxText == 3
MaxRoman == 1000

\* ------------------------------------------------------------ basic values
None == "None"
NoneSeq == <<"None">>

Urls == {"u1", "u2"}
Statuses == {"I", "NI", "NP", None}

square == "square"
boxtimes == "boxtimes"

Lower == <<"a", "b", "c", "d", "e", "f", "g", "h", "i", "j", "k", "l", "m",
           "n", "o", "p", "q", "r", "s", "t", "u", "v", "w", "x", "y", "z">>
Alphabet == <<"A", "B", "C", "D", "E", "F", "G", "H", "I", "J", "K", "L", "M",
              "N", "O", "P", "Q", "R", "S", "T", "U", "V", "W", "X", "Y", "Z">>
Digits == <<"1", "2", "3", "4", "5", "6", "7", "8", "9">>

\* The n-th sibling of a level carries the n-th of these texts: distinct
\* siblings have distinct texts, each with a character escape_latex rewrites.
Name(n) == <<Lower[n], "_">>

\* ------------------------------------------------------- helper functions

\* list.append, the only operation the layout applies to its output lists.
append_front(list, x) == <<x>> \o list
append(list, x) == Append(list, x)

RECURSIVE repeat(_, _)
repeat(s, n) == IF n <= 0 THEN <<>> ELSE s \o repeat(s, n - 1)

\* The table without its last entry.
val_twelve == <<1000, 900, 500, 400, 100, 90, 50, 40, 10, 9, 5, 4>>
val == <<1000, 900, 500, 400, 100, 90, 50, 40, 10, 9, 5, 4, 1>>
syb == << <<"M">>, <<"C", "M">>, <<"D">>, <<"C", "D">>, <<"C">>, <<"X", "C">>,
          <<"L">>, <<"X", "L">>, <<"X">>, <<"I", "X">>, <<"V">>, <<"I", "V">>,
          <<"I">> >>

\* The while loop of to_roman: one call is one iteration at index i; the inner
\* for loop appends syb[i] and subtracts val[i], n // val[i] times.
RECURSIVE roman_loop(_, _, _)
roman_loop(n, i, roman_num) ==
    IF n > 0
    THEN roman_loop(n - (n \div val[i]) * val[i], i + 1,
                    roman_num \o repeat(syb[i], n \div val[i]))
    ELSE roman_num

to_roman_additive(n) == repeat(<<"I">>, n)
to_roman(n) == roman_loop(n, 1, <<>>)

\* str.replace(old, new) for a one-character old: every occurrence, left to
\* right; a text without any is returned as it is.
RECURSIVE replace(_, _, _)
replace(text, old, new) ==
    IF \A n \in DOMAIN text : text[n] # old THEN text
    ELSE (IF Head(text) = old THEN new ELSE <<Head(text)>>)
         \o replace(Tail(text), old, new)

textbackslash == <<"\\", "t", "e", "x", "t", "b", "a", "c", "k", "s", "l",
                   "a", "s", "h", "{", "}">>

\* The passes in another order: the backslash pass last.
escape_latex_backslash_last(text) ==
    IF text = NoneSeq THEN <<>>
    ELSE LET t2 == replace(text, "_", <<"\\", "_">>)
             t3 == replace(t2, "%", <<"\\", "%">>)
             t4 == replace(t3, "&", <<"\\", "&">>)
             t5 == replace(t4, "#", <<"\\", "#">>)
             t6 == replace(t5, "$", <<"\\", "$">>)
             t7 == replace(t6, "{", <<"\\", "{">>)
             t8 == replace(t7, "}", <<"\\", "}">>)
             t9 == replace(t8, "^", <<"\\", "^", "{", "}">>)
             t10 == replace(t9, "~", <<"\\", "~", "{", "}">>)
         IN  replace(t10, "\\", textbackslash)
\* escape_latex: ten replace passes, each over the result of the one before.
escape_latex(text) ==
    IF text = NoneSeq THEN <<>>
    ELSE LET t1 == replace(text, "\\", textbackslash)
             t2 == replace(t1, "_", <<"\\", "_">>)
             t3 == replace(t2, "%", <<"\\", "%">>)
             t4 == replace(t3, "&", <<"\\", "&">>)
             t5 == replace(t4, "#", <<"\\", "#">>)
             t6 == replace(t5, "$", <<"\\", "$">>)
             t7 == replace(t6, "{", <<"\\", "{">>)
             t8 == replace(t7, "}", <<"\\", "}">>)
             t9 == replace(t8, "^", <<"\\", "^", "{", "}">>)
         IN  replace(t9, "~", <<"\\", "~", "{", "}">>)

\* str.upper on the letters the model's texts use.
upper_char(c) ==
    IF \E n \in 1..26 : Lower[n] = c
    THEN Alphabet[CHOOSE n \in 1..26 : Lower[n] = c]
    ELSE c

upper(text) == [n \in 1..Len(text) |-> upper_char(text[n])]

\* chr(ord("A") + j)
chr_B_plus(j) == Alphabet[2 + j]
chr_A_plus(j) == Alphabet[1 + j]

\* get_checkboxes: <<i_box, ni_box, np_box, d_box>>.
get_checkboxes_status_first(status, is_deficient) ==
    IF status = "I" THEN <<boxtimes, square, square, square>>
    ELSE IF status = "NI" THEN <<square, boxtimes, square, square>>
    ELSE IF status = "NP" THEN <<square, square, boxtimes, square>>
    ELSE IF is_deficient THEN <<square, square, square, boxtimes>>
    ELSE <<square, square, square, square>>

get_checkboxes(status, is_deficient) ==
    IF is_deficient THEN <<square, square, square, boxtimes>>
    ELSE IF status = "I" THEN <<boxtimes, square, square, square>>
    ELSE IF status = "NI" THEN <<square, boxtimes, square, square>>
    ELSE IF status = "NP" THEN <<square, square, boxtimes, square>>
    ELSE <<square, square, square, square>>

NoBoxes == <<>>

\* One element appended to body: the kind of markup, its literal text, the
\* four checkbox glyphs it carries (NoBoxes when none) and its images.
Line(kind, text, boxes, images) ==
    [kind |-> kind, text |-> text, boxes |-> boxes, images |-> images]

\* ------------------------------------------------------------------- state
VARIABLES
    IMAGE_CACHE,   \* module global: URL -> file path, or NoneSeq for a failure
    IMAGE_DIR,     \* module global: directory the fetch tasks write into
    lpc,           \* position of generate_latex_body
    i, j, k,       \* sections, line items of the section, comments of the
                   \* item the traversal has begun so far
    item,          \* the line item being laid out
    comment,       \* the comment being laid out
    checkbox_str,  \* get_checkboxes(status, is_deficient) of the item
    heads,         \* section headings appended to body so far
    subheads,      \* line-item headings appended for the current section
    rows,          \* checkbox rows appended for the current line item
    texts,         \* plain-text lines appended for the current line item
    out,           \* what the latest loop iteration appended to body
    rpc,           \* per run: position of generate_pdf_from_json
    refs,          \* per run: the urls the input document refers to, in order
    image_urls,    \* per run: the list collect_all_image_urls returned
    tasks,         \* per run: the fetch tasks download_images_background gathers
    dirs,          \* file system: the image directories that exist
    files,         \* file system: the image files that exist
    gets,          \* per run and url: HTTP GETs issued so far
    seen,          \* per run: what its layout read from the cache, per url
    now,           \* the wall clock, in seconds
    upc,           \* per request: position of upload_file
    output_dir,    \* per request: the timestamp that names its output directory
    disk,          \* output directories: <<directory, file, run that wrote it>>
    compiles,      \* per request: pdflatex invocations so far
    returncode,    \* per request: exit code of the latest pdflatex run
    cleanups,      \* per request: calls of cleanup_temp_files so far
    escaped,       \* per request: an exception of cleanup reached the server
    payload,       \* per request: what the uploaded file holds
    header,        \* the header fields the front pages are laid out from
    epc,           \* position of one call of escape_latex
    esc_text,      \* its argument
    esc_result,    \* its return value
    roman,         \* one call of to_roman: position, argument, n, i, passes
                   \* of the for loop still to make, roman_num
    apc,           \* position of analyze_inspection
    enabled,       \* GeminiAnalyzer.enabled
    json_data,     \* what the file posted to /analyze holds
    calls,         \* calls of generate_content so far
    executive_summary,    \* result of generate_executive_summary
    deficiency_analysis,  \* result of analyze_deficiencies
    insights,      \* result of enhance_summary_insights_sync
    reply          \* HTTP status analyze_inspection answered with

layoutVars == <<lpc, i, j, k, item, comment, checkbox_str, heads, subheads,
                rows, texts, out, header>>
globalVars == <<IMAGE_CACHE, IMAGE_DIR>>
fetchVars == <<rpc, refs, image_urls, tasks, dirs, files, gets, seen>>
uploadVars == <<now, upc, output_dir, disk, compiles, returncode, cleanups,
                escaped, payload>>
pureVars == <<epc, esc_text, esc_result, roman>>
analyzeVars == <<apc, enabled, json_data, calls, executive_summary,
                 deficiency_analysis, insights, reply>>
vars == <<globalVars, layoutVars, fetchVars, uploadVars, pureVars, analyzeVars>>

\* ------------------------------------------------------------ input domain
Captions == {NoneSeq, <<"c", "%">>}
Values == {NoneSeq, <<"v", "#">>}

\* A photo without a url is skipped whatever its caption, so it has none.
Photos == {[url |-> None, caption |-> NoneSeq]}
          \cup {[url |-> u, caption |-> c] : u \in Urls, c \in Captions}
PhotoLists == UNION {[1..n -> Photos] : n \in 0..MaxPhotos}

NoItem == [title |-> <<>>, inspectionStatus |-> None, isDeficient |-> FALSE,
           hasComments |-> FALSE]
NoComment == [label |-> <<>>, value |-> NoneSeq, photos |-> <<>>]
\* The front pages are not being laid out.
NoHeader == [clientInfo |-> <<>>, fullAddress |-> <<>>, inspector |-> <<>>,
             email |-> <<>>, agents |-> FALSE, agent |-> <<>>, company |-> <<>>]

\* No call of escape_latex or to_roman is being followed.
NoRoman == [pc |-> "off", num |-> 0, n |-> 0, i |-> 0, todo |-> 0,
            roman_num |-> <<>>]
PureOff ==
    /\ epc = "off" /\ esc_text = <<>> /\ esc_result = <<>>
    /\ roman = NoRoman

\* No request to /analyze is being served.
NoAnalysis == [kind |-> "None", safety |-> "absent", urgent |-> "absent",
               routine |-> "absent"]
NoInsights == [has_ai_analysis |-> FALSE, executive_summary |-> "",
               deficiency_categories |-> NoAnalysis,
               priority_summary |-> FALSE]
NoReply == 0
AnalyzeOff ==
    /\ apc = "off" /\ enabled = FALSE /\ json_data = "clean" /\ calls = 0
    /\ executive_summary = "None" /\ deficiency_analysis = NoAnalysis
    /\ insights = NoInsights /\ reply = NoReply

\* os.path.join(IMAGE_DIR, md5(url) + ".jpg"): the name is a function of the url.
filepath_of(dir, url) == <<dir, url>>
basename(path) == path[2]

\* Caches the layout may meet: u1 resolved; u2 resolved, failed or never stored.
LayoutCaches ==
    {[u \in {"u1", "u2"} |-> filepath_of(1, u)],
     [u \in {"u1", "u2"} |-> IF u = "u1" THEN filepath_of(1, u) ELSE NoneSeq],
     [u \in {"u1"} |-> filepath_of(1, u)]}

\* ----------------------------------------------------------------- layout

\* IMAGE_CACHE.get(url)
get_cached_image(url) ==
    IF url \in DOMAIN IMAGE_CACHE THEN IMAGE_CACHE[url] ELSE NoneSeq

\* enumerate(..., start=...) of the three loops
section_start == 1
item_start == 0
comment_start == 1

\* The if/elif chain over (comments, status): which of the four scenarios runs.
scenario_comments_first(has_comments, status) ==
    IF has_comments THEN 4
    ELSE IF status # None THEN 1
    ELSE 3

scenario(has_comments, status) ==
    IF ~has_comments /\ status # None THEN 1
    ELSE IF has_comments /\ status = None THEN 2
    ELSE IF ~has_comments /\ status = None THEN 3
    ELSE IF has_comments THEN 4
    ELSE 0

\* The photo loop of a comment: the resolved photos, in valid_image_data.
RECURSIVE photo_loop(_, _)
photo_loop(photos, valid_image_data) ==
    IF photos = <<>> THEN valid_image_data
    ELSE LET photo == Head(photos)
             url == photo.url
             img_path == IF url # None THEN get_cached_image(url) ELSE NoneSeq
         IN  photo_loop(Tail(photos),
                 IF url # None /\ img_path # NoneSeq
                 THEN append(valid_image_data,
                             [path |-> <<"images", basename(img_path)>>,
                              caption |-> photo.caption])
                 ELSE valid_image_data)

valid_images_unfiltered(photos) ==
    [n \in 1..Len(photos) |->
        [path |-> <<"images", photos[n].url>>, caption |-> photos[n].caption]]

valid_images(photos) == photo_loop(photos, <<>>)

image_size_three_tiers(num_photos) ==
    IF num_photos = 1 THEN <<"3.0in", "2.5in">>
    ELSE IF num_photos = 2 THEN <<"1.8in", "2.0in">>
    ELSE <<"1.3in", "1.8in">>

\* <<img_width, max_height>> by the number of resolved photos.
image_size(num_photos) ==
    IF num_photos = 1 THEN <<"3.0in", "2.5in">>
    ELSE IF num_photos = 2 THEN <<"1.8in", "2.0in">>
    ELSE IF num_photos = 3 THEN <<"1.3in", "1.8in">>
    ELSE <<"1.0in", "1.5in">>

\* image_parts: one minipage per resolved photo, the caption escaped if any.
RECURSIVE image_parts(_, _, _)
image_parts(valid_image_data, size, parts) ==
    IF valid_image_data = <<>> THEN parts
    ELSE LET img_data == Head(valid_image_data)
         IN  image_parts(Tail(valid_image_data), size,
                 append(parts,
                        [path |-> img_data.path,
                         caption |-> IF img_data.caption # NoneSeq
                                        /\ img_data.caption # <<>>
                                     THEN escape_latex(img_data.caption)
                                     ELSE NoneSeq,
                         width |-> size[1], height |-> size[2]]))

\* The image block of a comment (lines 529-602), appended to body.
image_block(body, photos) ==
    LET valid_image_data == valid_images(photos)
    IN  IF photos # <<>> /\ valid_image_data # <<>>
        THEN append(body,
                    Line("images", <<>>, NoBoxes,
                         image_parts(valid_image_data,
                                     image_size(Len(valid_image_data)), <<>>)))
        ELSE body

\* The value row of a comment (lines 604-611).
value_row(body, c) ==
    IF c.value # NoneSeq /\ c.value # <<>>
    THEN append(body, Line("value_row", escape_latex(c.value), NoBoxes, <<>>))
    ELSE body

\* The label row of a comment (lines 525-527); n is the enumerate index.
label_row(boxes, n, c) ==
    Line("row", escape_latex(<<Digits[n], ".", " ">> \o c.label), boxes, <<>>)

\* The value appended as it was given.
value_text_raw(body, c) ==
    IF c.value # NoneSeq /\ c.value # <<>>
    THEN append(body, Line("text", c.value, NoBoxes, <<>>))
    ELSE body
\* The value of a comment as plain text (lines 507-510).
value_text(body, c) ==
    IF c.value # NoneSeq /\ c.value # <<>>
    THEN append(body, Line("text", escape_latex(c.value), NoBoxes, <<>>))
    ELSE body

comment_head_labelled(sc, boxes, n, c) == append(<<>>, label_row(boxes, n, c))

\* An iteration of a comment loop, first part: scenario 4 appends the label
\* row (lines 525-527), scenario 2 nothing.
comment_head(sc, boxes, n, c) ==
    IF sc = 2 THEN <<>> ELSE append(<<>>, label_row(boxes, n, c))

comment_body_value_first(body, sc, c) ==
    IF sc = 2 THEN value_text(body, c)
    ELSE image_block(value_row(body, c), c.photos)

\* An iteration of a comment loop, second part: scenario 2 appends the value
\* as text (lines 507-510), scenario 4 the image block and the value row
\* (lines 529-611).
comment_body(body, sc, c) ==
    IF sc = 2 THEN value_text(body, c)
    ELSE value_row(image_block(body, c.photos), c)

longtable_begin == Line("longtable", <<>>, NoBoxes, <<>>)
header_row == Line("header", <<>>, NoBoxes, <<>>)
longtable_end == Line("end_longtable", <<>>, NoBoxes, <<>>)
vspace == Line("vspace", <<>>, NoBoxes, <<>>)
clearpage == Line("clearpage", <<>>, NoBoxes, <<>>)
no_comment_text == <<"N", "o", " ", "c", "o", "m", "m", "e", "n", "t">>

section_heading(n, name) ==
    Line("section", to_roman(n) \o <<".", " ">> \o escape_latex(upper(name)),
         NoBoxes, <<>>)

subsection_heading(n, title) ==
    Line("subsection", <<chr_A_plus(n)>> \o <<".", " ">> \o escape_latex(title),
         NoBoxes, <<>>)

item_lines_status_unread(it, n, boxes) ==
    LET h == append(<<>>, subsection_heading(n, it.title))
    IN  IF it.hasComments
        THEN append(append(h, longtable_begin), header_row)
        ELSE append(append(append(h, Line("text", no_comment_text, NoBoxes, <<>>)),
                           vspace), vspace)

\* What the item iteration appends before its comment loop (lines 488-522).
item_lines(it, n, boxes) ==
    LET sc == scenario(it.hasComments, it.inspectionStatus)
        h == append(<<>>, subsection_heading(n, it.title))
    IN  IF sc = 1
        THEN append(append(append(append(append(h, longtable_begin), header_row),
                 Line("row", no_comment_text, boxes, <<>>)), longtable_end), vspace)
        ELSE IF sc = 3
        THEN append(append(append(h, Line("text", no_comment_text, NoBoxes, <<>>)),
                           vspace), vspace)
        ELSE IF sc = 4
        THEN append(append(h, longtable_begin), header_row)
        ELSE h

\* The lines of one kind among lines, in order.
RECURSIVE lines_of(_, _)
lines_of(lines, kind) ==
    IF lines = <<>> THEN <<>>
    ELSE (IF Head(lines).kind = kind THEN <<Head(lines)>> ELSE <<>>)
         \o lines_of(Tail(lines), kind)

\* The checkbox rows among lines, in order.
box_rows(lines) == lines_of(lines, "row")

RECURSIVE extend(_, _)
extend(list, lines) ==
    IF lines = <<>> THEN list ELSE extend(append(list, Head(lines)), Tail(lines))

LayoutInit ==
    /\ lpc = "start"
    /\ i = 0 /\ j = 0 /\ k = 0
    /\ item = NoItem /\ comment = NoComment
    /\ checkbox_str = NoBoxes
    /\ heads = <<>> /\ subheads = <<>> /\ rows = <<>> /\ texts = <<>>
    /\ out = <<>>
    /\ header = NoHeader

\* The header fields of a document: a text, an empty text, or a value that
\* is no string; agents is whether the list of agents has an entry.
HeaderTexts == {NoneSeq, <<>>, <<"b", "\\", "$">>}
Headers == [clientInfo : HeaderTexts, fullAddress : HeaderTexts,
            inspector : HeaderTexts, email : HeaderTexts, agents : BOOLEAN,
            agent : HeaderTexts, company : HeaderTexts]

\* generate_title_page (lines 297-417): the lines that carry header fields.
generate_title_page(h) ==
    LET client_name == escape_latex(h.clientInfo)
        full_address == escape_latex(h.fullAddress)
        inspector_name == escape_latex(h.inspector)
        inspector_email == escape_latex(h.email)
        agent_name == IF h.agents THEN escape_latex(h.agent) ELSE <<>>
        agent_company == IF h.agents THEN escape_latex(h.company) ELSE <<>>
        by == << Line("title_page", <<>>, NoBoxes, <<>>),
                 Line("client", client_name, NoBoxes, <<>>),
                 Line("address", full_address, NoBoxes, <<>>),
                 Line("inspector", inspector_name, NoBoxes, <<>>) >>
        email == IF inspector_email # <<>>
                 THEN append(by, Line("email", inspector_email, NoBoxes, <<>>))
                 ELSE by
        agent == append(email, Line("agent", agent_name, NoBoxes, <<>>))
    IN  IF agent_name = <<>> THEN email
        ELSE IF agent_company = <<>> THEN agent
        ELSE append(agent, Line("company", agent_company, NoBoxes, <<>>))

\* generate_trec_form_page (lines 164-294): the lines that carry header fields.
generate_trec_form_page(h) ==
    << Line("trec_form_page", <<>>, NoBoxes, <<>>),
       Line("client", escape_latex(h.clientInfo), NoBoxes, <<>>),
       Line("address", escape_latex(h.fullAddress), NoBoxes, <<>>),
       Line("inspector", escape_latex(h.inspector), NoBoxes, <<>>) >>

\* Lines 424-475: title page, TREC form page, header and footer setup.
StartBody ==
    /\ lpc = "start"
    /\ lpc' = "sections"
    /\ \E h \in Headers :
         /\ header' = h
         /\ out' = append(generate_title_page(h) \o generate_trec_form_page(h),
                          Line("header_setup", <<>>, NoBoxes, <<>>))
    /\ UNCHANGED <<i, j, k, item, comment, checkbox_str, heads, subheads, rows,
                   texts>>
    /\ UNCHANGED <<globalVars, fetchVars, uploadVars>>
    /\ UNCHANGED <<pureVars, analyzeVars>>

\* Lines 477-483: the next section, its heading.
NextSection ==
    /\ lpc = "sections" /\ i < MaxSections
    /\ LET h == section_heading(section_start + i, Name(i + 1))
       IN  /\ heads' = append(heads, h)
           /\ out' = append(<<>>, h)
    /\ i' = i + 1
    /\ j' = 0 /\ subheads' = <<>>
    /\ lpc' = "items"
    /\ UNCHANGED <<k, item, comment, checkbox_str, rows, texts>>
    /\ UNCHANGED <<globalVars, fetchVars, uploadVars>>
    /\ header' = NoHeader
    /\ UNCHANGED <<pureVars, analyzeVars>>

\* Lines 484-522 (and 615 for an item without comments): the next line item.
NextItem ==
    /\ lpc = "items" /\ j < MaxItems
    /\ \E status \in Statuses, is_deficient \in BOOLEAN, has_comments \in BOOLEAN :
         LET it == [title |-> Name(j + 1), inspectionStatus |-> status,
                    isDeficient |-> is_deficient, hasComments |-> has_comments]
             boxes == get_checkboxes(status, is_deficient)
             lines == item_lines(it, item_start + j, boxes)
         IN  /\ item' = it
             /\ checkbox_str' = boxes
             /\ out' = lines
             /\ subheads' = extend(subheads, lines_of(lines, "subsection"))
             /\ rows' = box_rows(lines)
             /\ texts' = lines_of(lines, "text")
             /\ lpc' = IF has_comments THEN "comments" ELSE "items"
    /\ j' = j + 1
    /\ k' = 0
    /\ comment' = NoComment
    /\ UNCHANGED <<i, heads>>
    /\ UNCHANGED <<globalVars, fetchVars, uploadVars>>
    /\ UNCHANGED header
    /\ UNCHANGED <<pureVars, analyzeVars>>

\* Lines 506 and 524-527: the next comment of the item, its label row.
NextComment ==
    /\ lpc = "comments" /\ k < MaxComments
    /\ LET c == [NoComment EXCEPT !.label = Name(k + 1)]
           lines == comment_head(scenario(item.hasComments, item.inspectionStatus),
                                 checkbox_str, comment_start + k, c)
       IN  /\ comment' = c
           /\ out' = lines
           /\ rows' = extend(rows, box_rows(lines))
    /\ k' = k + 1
    /\ lpc' = "comment"
    /\ UNCHANGED <<i, j, item, checkbox_str, heads, subheads, texts>>
    /\ UNCHANGED <<globalVars, fetchVars, uploadVars>>
    /\ UNCHANGED header
    /\ UNCHANGED <<pureVars, analyzeVars>>

\* Lines 507-510 and 529-611: the photos and the value of the comment.
CommentBody ==
    /\ lpc = "comment"
    /\ \E value \in Values, photos \in PhotoLists :
         LET c == [comment EXCEPT !.value = value, !.photos = photos]
             sc == scenario(item.hasComments, item.inspectionStatus)
         IN  /\ comment' = c
             /\ out' = comment_body(out, sc, c)
             /\ texts' = extend(texts, lines_of(comment_body(<<>>, sc, c), "text"))
    /\ lpc' = "comments"
    /\ UNCHANGED <<i, j, k, item, checkbox_str, heads, subheads, rows>>
    /\ UNCHANGED <<globalVars, fetchVars, uploadVars>>
    /\ UNCHANGED header
    /\ UNCHANGED <<pureVars, analyzeVars>>

\* Lines 511 or 613, then 615: the comment loop of the item is over.
EndItem ==
    /\ lpc = "comments" /\ k >= 1
    /\ out' = IF scenario(item.hasComments, item.inspectionStatus) = 2
              THEN append(append(<<>>, vspace), vspace)
              ELSE append(append(<<>>, longtable_end), vspace)
    /\ lpc' = "items"
    /\ comment' = NoComment
    /\ UNCHANGED <<i, j, k, item, checkbox_str, heads, subheads, rows, texts>>
    /\ UNCHANGED <<globalVars, fetchVars, uploadVars>>
    /\ UNCHANGED header
    /\ UNCHANGED <<pureVars, analyzeVars>>

\* Line 617: the item loop of the section is over.
EndSection ==
    /\ lpc = "items"
    /\ out' = append(<<>>, clearpage)
    /\ lpc' = "sections"
    /\ item' = NoItem /\ checkbox_str' = NoBoxes /\ rows' = <<>>
    /\ texts' = <<>>
    /\ UNCHANGED <<i, j, k, comment, heads, subheads>>
    /\ UNCHANGED <<globalVars, fetchVars, uploadVars>>
    /\ UNCHANGED header
    /\ UNCHANGED <<pureVars, analyzeVars>>

\* Line 619: the section loop is over, the body is returned.
ReturnBody ==
    /\ lpc = "sections"
    /\ lpc' = "done"
    /\ out' = <<>>
    /\ UNCHANGED <<i, j, k, item, comment, checkbox_str, heads, subheads, rows,
                   texts>>
    /\ UNCHANGED <<globalVars, fetchVars, uploadVars>>
    /\ header' = NoHeader
    /\ UNCHANGED <<pureVars, analyzeVars>>

LayoutNext ==
    \/ StartBody
    \/ NextSection
    \/ NextItem
    \/ NextComment
    \/ CommentBody
    \/ EndItem
    \/ EndSection
    \/ ReturnBody

\* ------------------------------------------------------------------ fetch
Runs == 1..MaxRuns

\* IMAGE_DIR as the module sets it at import: "latex/images".
default_image_dir == 0
\* os.path.join(output_dir, "images"): run r is given its own output_dir.
image_dir_of(r) == r

EmptyCache == [u \in {} |-> NoneSeq]

\* No request has asked for a directory yet.
NoDir == 0

\* No upload request is being served.
UploadOff ==
    /\ now = 1
    /\ upc = [r \in Runs |-> "off"]
    /\ output_dir = [r \in Runs |-> NoDir]
    /\ disk = {}
    /\ compiles = [r \in Runs |-> 0]
    /\ returncode = [r \in Runs |-> 0]
    /\ cleanups = [r \in Runs |-> 0]
    /\ escaped = [r \in Runs |-> FALSE]
    /\ payload = [r \in Runs |-> "ok"]

\* What the network and the decoder can do to one GET.
Outcomes == {"ok", "non200", "timeout", "conn_error", "decode_error", "save_error"}

\* response.status of the GET; NoResponse when the request ended without one.
NoResponse == 0
HttpStatuses == {200, 204, 404}

\* Line 105: if response.status != 200 the fetch has failed.
is_success_2xx(status) == status \in 200..299
is_success(status) == status = 200

\* What can follow a response of this status, or the lack of one.
outcomes_of(status) ==
    IF status = NoResponse THEN {"timeout", "conn_error"}
    ELSE IF ~is_success(status) THEN {"non200"}
    ELSE {"ok", "decode_error", "save_error", "timeout"}

NewTask(url) ==
    [url |-> url, state |-> "new", filepath |-> NoneSeq, outcome |-> None,
     status |-> NoResponse, result |-> NoneSeq, file_at_start |-> FALSE,
     issued_get |-> FALSE]

\* Line 96: the file of the url is there already.
never_cached(filepath, on_disk) == FALSE
already_cached(filepath, on_disk) == filepath \in on_disk

\* Lines 104-137: does the response end with a file written at filepath.
\* A 200 response is saved as JPEG; one that fails to decode is saved raw.
stores_file(outcome) == outcome \in {"ok", "decode_error"}

\* Lines 104-146: the value download_image_async returns for the response.
fetch_result_keep_path(outcome, filepath) == filepath
fetch_result(outcome, filepath) ==
    IF outcome \in {"ok", "decode_error"} THEN filepath ELSE NoneSeq

\* Line 153: IMAGE_CACHE[url] = filepath
cache_store_none(cache, url, filepath) ==
    [u \in DOMAIN cache \cup {url} |-> IF u = url THEN NoneSeq ELSE cache[u]]
cache_store(cache, url, filepath) ==
    [u \in DOMAIN cache \cup {url} |-> IF u = url THEN filepath ELSE cache[u]]

\* Line 668: asyncio.gather(*tasks, return_exceptions=True) raises nothing,
\* whatever the tasks raised.
gather_propagates(ts) == \E t \in DOMAIN ts : ts[t].state = "raised"
gather_raises(ts) == FALSE

\* Lines 627-649: the set of the urls referred to, as a list in any order.
listings(S) ==
    {l \in [1..Cardinality(S) -> S] : \A a, b \in DOMAIN l : a # b => l[a] # l[b]}
collect_all_image_urls_listed(r) == {refs[r]}
collect_all_image_urls(r) == listings({refs[r][n] : n \in DOMAIN refs[r]})

RefLists == UNION {[1..n -> Urls] : n \in 0..MaxRefs}
\* Documents with a single photo: enough for two runs to meet in the cache.
OneRefLists == {<<u>> : u \in Urls}

FetchInitCommon ==
    /\ IMAGE_CACHE = EmptyCache
    /\ IMAGE_DIR = default_image_dir
    /\ image_urls = [r \in Runs |-> <<>>]
    /\ tasks = [r \in Runs |-> <<>>]
    /\ dirs = {}
    /\ files = {}
    /\ gets = [r \in Runs |-> [u \in Urls |-> 0]]
    /\ seen = [r \in Runs |-> EmptyCache]
    /\ UploadOff
    /\ PureOff /\ AnalyzeOff

\* Line 834: IMAGE_CACHE = {}
ResetCache(r) ==
    /\ rpc[r] = "idle"
    /\ IMAGE_CACHE' = EmptyCache
    /\ rpc' = [rpc EXCEPT ![r] = "reset"]
    /\ UNCHANGED <<IMAGE_DIR, refs, image_urls, tasks, dirs, files, gets, seen>>
    /\ UNCHANGED <<layoutVars, uploadVars>>
    /\ UNCHANGED <<pureVars, analyzeVars>>

\* Lines 837-867: IMAGE_DIR = os.path.join(output_dir, "images"); the output
\* directory, the static images and the template touch neither global.
SetImageDir(r) ==
    /\ rpc[r] = "reset"
    /\ IMAGE_DIR' = image_dir_of(r)
    /\ rpc' = [rpc EXCEPT ![r] = "setup"]
    /\ UNCHANGED <<IMAGE_CACHE, refs, image_urls, tasks, dirs, files, gets, seen>>
    /\ UNCHANGED <<layoutVars, uploadVars>>
    /\ UNCHANGED <<pureVars, analyzeVars>>

\* Line 868: image_urls = await collect_all_image_urls(json_data)
Collect(r) ==
    /\ rpc[r] = "setup"
    /\ \E l \in collect_all_image_urls(r) : image_urls' = [image_urls EXCEPT ![r] = l]
    /\ rpc' = [rpc EXCEPT ![r] = "collected"]
    /\ UNCHANGED <<globalVars, refs, tasks, dirs, files, gets, seen>>
    /\ UNCHANGED <<layoutVars, uploadVars>>
    /\ UNCHANGED <<pureVars, analyzeVars>>

\* Lines 871-872, 654-667: no url, no download; else one task per listed url.
StartDownload(r) ==
    /\ rpc[r] = "collected"
    /\ IF image_urls[r] = <<>>
       THEN /\ rpc' = [rpc EXCEPT ![r] = "fetched"]
            /\ UNCHANGED tasks
       ELSE /\ rpc' = [rpc EXCEPT ![r] = "fetching"]
            /\ tasks' = [tasks EXCEPT ![r] =
                           [n \in DOMAIN image_urls[r] |-> NewTask(image_urls[r][n])]]
    /\ UNCHANGED <<globalVars, refs, image_urls, dirs, files, gets, seen>>
    /\ UNCHANGED <<layoutVars, uploadVars>>
    /\ UNCHANGED <<pureVars, analyzeVars>>

\* Lines 88-104 of a task.  Lines 88-93 stand before the try block: what they
\* raise (os.makedirs failing, url.encode on a url with a lone surrogate)
\* leaves the task through download_and_cache_image, before line 153.
\* Otherwise the image directory exists from here on; a url whose file is
\* there is answered from it and stored in the cache (line 153); any other
\* issues its GET.
TaskStart(r, t) ==
    /\ rpc[r] = "fetching"
    /\ t \in DOMAIN tasks[r]
    /\ tasks[r][t].state = "new"
    /\ LET url == tasks[r][t].url
           filepath == filepath_of(IMAGE_DIR, url)
       IN  \/ /\ tasks' = [tasks EXCEPT ![r][t].state = "raised"]
              /\ UNCHANGED <<globalVars, dirs, files, gets>>
           \/ /\ dirs' = dirs \cup {IMAGE_DIR}
              /\ IF already_cached(filepath, files)
                 THEN /\ tasks' = [tasks EXCEPT ![r][t] =
                             [@ EXCEPT !.state = "done", !.filepath = filepath,
                                       !.outcome = "cached", !.result = filepath,
                                       !.file_at_start = filepath \in files]]
                      /\ IMAGE_CACHE' = cache_store(IMAGE_CACHE, url, filepath)
                      /\ UNCHANGED <<IMAGE_DIR, gets>>
                 ELSE /\ tasks' = [tasks EXCEPT ![r][t] =
                             [@ EXCEPT !.state = "inflight", !.filepath = filepath,
                                       !.file_at_start = filepath \in files,
                                       !.issued_get = TRUE]]
                      /\ gets' = [gets EXCEPT ![r][url] = @ + 1]
                      /\ UNCHANGED globalVars
              /\ UNCHANGED files
    /\ UNCHANGED <<rpc, refs, image_urls, seen>>
    /\ UNCHANGED <<layoutVars, uploadVars>>
    /\ UNCHANGED <<pureVars, analyzeVars>>

\* Lines 104-146 and 152-153 of a task: the response, then the cache entry.
TaskFinish(r, t) ==
    /\ rpc[r] = "fetching"
    /\ t \in DOMAIN tasks[r]
    /\ tasks[r][t].state = "inflight"
    /\ \E status \in HttpStatuses \cup {NoResponse} :
       \E outcome \in Outcomes \cap outcomes_of(status) :
         LET url == tasks[r][t].url
             filepath == tasks[r][t].filepath
             result == fetch_result(outcome, filepath)
         IN  /\ files' = IF stores_file(outcome) THEN files \cup {filepath} ELSE files
             /\ tasks' = [tasks EXCEPT ![r][t] =
                    [@ EXCEPT !.state = "done", !.outcome = outcome,
                              !.status = status, !.result = result]]
             /\ IMAGE_CACHE' = cache_store(IMAGE_CACHE, url, result)
    /\ UNCHANGED <<IMAGE_DIR, rpc, refs, image_urls, dirs, gets, seen>>
    /\ UNCHANGED <<layoutVars, uploadVars>>
    /\ UNCHANGED <<pureVars, analyzeVars>>

\* Lines 668-671: the join over the tasks; download_images_background returns.
Gather(r) ==
    /\ rpc[r] = "fetching"
    /\ \A t \in DOMAIN tasks[r] : tasks[r][t].state \in {"done", "raised"}
    /\ rpc' = [rpc EXCEPT ![r] = IF gather_raises(tasks[r]) THEN "raised" ELSE "fetched"]
    /\ UNCHANGED <<globalVars, refs, image_urls, tasks, dirs, files, gets, seen>>
    /\ UNCHANGED <<layoutVars, uploadVars>>
    /\ UNCHANGED <<pureVars, analyzeVars>>

\* Lines 886-890: generate_latex_body resolves the photo urls of the document
\* with get_cached_image.
RunLayout(r) ==
    /\ rpc[r] = "fetched"
    /\ seen' = [seen EXCEPT ![r] =
                  [u \in {refs[r][n] : n \in DOMAIN refs[r]} |-> get_cached_image(u)]]
    /\ rpc' = [rpc EXCEPT ![r] = "done"]
    /\ UNCHANGED <<globalVars, refs, image_urls, tasks, dirs, files, gets>>
    /\ UNCHANGED <<layoutVars, uploadVars>>
    /\ UNCHANGED <<pureVars, analyzeVars>>

\* A caller hands download_images_background a url list as it is, a url
\* possibly more than once: several calls of download_image_async for one url.
DirectDownload(r) ==
    /\ rpc[r] = "setup"
    /\ image_urls' = [image_urls EXCEPT ![r] = refs[r]]
    /\ rpc' = [rpc EXCEPT ![r] = "collected"]
    /\ UNCHANGED <<globalVars, refs, tasks, dirs, files, gets, seen>>
    /\ UNCHANGED <<layoutVars, uploadVars>>
    /\ UNCHANGED <<pureVars, analyzeVars>>

\* ----------------------------------------------------------------- upload

\* The files of an output directory.
template_tex == "report.tex"
final_tex_file == "final_report.tex"
final_pdf_file == "final_report.pdf"
log_file == "final_report.log"
output_pdf == "final_report_compressed.pdf"
temp_pdf == "final_report_temp.pdf"
image_file == "images/*"

\* os.path.exists, os.remove, open(..., "w") and os.rename on disk.
exists(dk, d, name) == \E f \in dk : f[1] = d /\ f[2] = name
remove(dk, d, name) == {f \in dk : ~(f[1] = d /\ f[2] = name)}
write(dk, d, name, r) == remove(dk, d, name) \cup {<<d, name, r>>}
rename(dk, d, from, to) ==
    remove(remove(dk, d, from), d, to)
        \cup {<<d, to, f[3]>> : f \in {g \in dk : g[1] = d /\ g[2] = from}}

\* app.py line 72: datetime.now().strftime("%Y%m%d_%H%M%S"), whole seconds.
timestamp(clock) == clock

\* Lines 901-912: pdflatex is run twice.
more_passes_once(n) == n < 1
more_passes(n) == n < 2

\* Line 915: the run has succeeded when the PDF is there, whatever the exit code.
artifact_ok_by_exit(pdf_exists, code) == pdf_exists /\ code = 0
artifact_ok(pdf_exists, code) == pdf_exists

\* What a pdflatex run does to the PDF of the directory.
PdfEffects == {"writes", "leaves", "removes"}

\* Lines 773-775 and 815-816: os.remove(input_pdf), then os.rename(tmp,
\* input_pdf); either can raise, and the except clauses return input_pdf.
ReplaceSteps == {"replaced", "remove_raises", "rename_raises"}
replace_original(dk, d, tmp, step) ==
    IF step = "remove_raises" THEN dk
    ELSE IF step = "rename_raises" THEN remove(dk, d, final_pdf_file)
    ELSE rename(dk, d, tmp, final_pdf_file)

\* Ghostscript: exit 0 with its output written, a failure (non-zero exit or no
\* output), the tool absent, the 30 s timeout, any other exception.
GsOutcomes == {"ok", "failed", "absent", "timeout", "error"}
PypdfOutcomes == {"ok", "import_error", "error"}

\* app.py lines 112-117: cleanup runs when the response is closed, and what it
\* raises is caught there.
cleanup_may_run_early(pc) == pc \in {"sending", "closed"}
cleanup_may_run(pc) == pc = "closed"
cleanup_after_download_propagates(outcome) == outcome = "raises"
cleanup_after_download_raises(outcome) == FALSE

\* Lines 960-988: what cleanup_temp_files removes.
CleanupNames == {image_file, final_tex_file, log_file}

\* The wall clock reaches the next second while a request is yet to start.
Tick ==
    /\ now < MaxClock
    /\ \E r \in Runs : upc[r] = "idle"
    /\ now' = now + 1
    /\ UNCHANGED <<upc, output_dir, disk, compiles, returncode, cleanups, escaped>>
    /\ UNCHANGED <<globalVars, layoutVars, fetchVars>>
    /\ UNCHANGED payload
    /\ UNCHANGED <<pureVars, analyzeVars>>

\* What an uploaded .json file can hold: text that is no JSON, an object
\* without 'inspection', one whose 'inspection' has no 'sections', a report.
Payloads == {"invalid_json", "no_inspection", "no_sections", "ok"}

\* app.py line 69: json.load raises JSONDecodeError for text that is no JSON
\* and returns whatever object the text denotes otherwise.
json_load_raises(p) == p = "invalid_json"

\* Lines 432 and 628: data.get("inspection", {}).get("sections", []): a
\* document without the keys has no sections, hence no photos.
has_sections(p) == p = "ok"

\* app.py lines 69 and 121-123: the file is no JSON; the error is flashed
\* and the request redirected.
RejectJson(r) ==
    /\ upc[r] = "idle"
    /\ json_load_raises(payload[r])
    /\ upc' = [upc EXCEPT ![r] = "invalid_json"]
    /\ UNCHANGED <<now, output_dir, disk, compiles, returncode, cleanups, escaped>>
    /\ UNCHANGED <<globalVars, layoutVars, fetchVars>>
    /\ UNCHANGED payload
    /\ UNCHANGED <<pureVars, analyzeVars>>

\* app.py lines 72-84: the output directory named by the timestamp is made
\* (exist_ok=True) and the template copied into it.
MakeDir(r) ==
    /\ upc[r] = "idle"
    /\ ~json_load_raises(payload[r])
    /\ output_dir' = [output_dir EXCEPT ![r] = timestamp(now)]
    /\ disk' = write(disk, timestamp(now), template_tex, r)
    /\ upc' = [upc EXCEPT ![r] = "made"]
    /\ UNCHANGED <<now, compiles, returncode, cleanups, escaped>>
    /\ UNCHANGED <<globalVars, layoutVars, fetchVars>>
    /\ UNCHANGED payload
    /\ UNCHANGED <<pureVars, analyzeVars>>

\* Lines 833-897 for the output directory: the fetch stage leaves the images
\* it stored, the layout is written as final_report.tex.
Build(r) ==
    /\ upc[r] = "made"
    /\ \E stored \in {FALSE, has_sections(payload[r])} :
         disk' = write(IF stored THEN write(disk, output_dir[r], image_file, r)
                                 ELSE disk,
                       output_dir[r], final_tex_file, r)
    /\ upc' = [upc EXCEPT ![r] = "built"]
    /\ UNCHANGED <<now, output_dir, compiles, returncode, cleanups, escaped>>
    /\ UNCHANGED <<globalVars, layoutVars, fetchVars>>
    /\ UNCHANGED payload
    /\ UNCHANGED <<pureVars, analyzeVars>>

\* Lines 901-912: one run of pdflatex: any exit code, the log written, the PDF
\* written anew, left as it was or removed.
Compile(r) ==
    /\ upc[r] = "built" /\ more_passes(compiles[r])
    /\ \E code \in {0, 1}, effect \in PdfEffects :
         /\ returncode' = [returncode EXCEPT ![r] = code]
         /\ disk' = LET logged == write(disk, output_dir[r], log_file, r)
                    IN  IF effect = "writes"
                        THEN write(logged, output_dir[r], final_pdf_file, r)
                        ELSE IF effect = "removes"
                        THEN remove(logged, output_dir[r], final_pdf_file)
                        ELSE logged
    /\ compiles' = [compiles EXCEPT ![r] = @ + 1]
    /\ UNCHANGED <<now, upc, output_dir, cleanups, escaped>>
    /\ UNCHANGED <<globalVars, layoutVars, fetchVars>>
    /\ UNCHANGED payload
    /\ UNCHANGED <<pureVars, analyzeVars>>

\* Lines 915-937: without the PDF the run raises, which upload_file turns
\* into an error page (app.py lines 124-126).
Judge(r) ==
    /\ upc[r] = "built" /\ ~more_passes(compiles[r])
    /\ upc' = [upc EXCEPT ![r] =
                 IF artifact_ok(exists(disk, output_dir[r], final_pdf_file),
                                returncode[r])
                 THEN "compressing" ELSE "compile_failed"]
    /\ UNCHANGED <<now, output_dir, disk, compiles, returncode, cleanups, escaped>>
    /\ UNCHANGED <<globalVars, layoutVars, fetchVars>>
    /\ UNCHANGED payload
    /\ UNCHANGED <<pureVars, analyzeVars>>

\* Lines 734-791: compress_pdf with Ghostscript.
Compress(r) ==
    /\ upc[r] = "compressing"
    /\ \E outcome \in GsOutcomes, step \in ReplaceSteps :
         /\ disk' = IF outcome = "ok"
                    THEN replace_original(write(disk, output_dir[r], output_pdf, r),
                                          output_dir[r], output_pdf, step)
                    ELSE disk
         /\ upc' = [upc EXCEPT ![r] = IF outcome \in {"failed", "absent"}
                                      THEN "pypdf" ELSE "compressed"]
    /\ UNCHANGED <<now, output_dir, compiles, returncode, cleanups, escaped>>
    /\ UNCHANGED <<globalVars, layoutVars, fetchVars>>
    /\ UNCHANGED payload
    /\ UNCHANGED <<pureVars, analyzeVars>>

\* Lines 794-825: compress_pdf_pypdf, the fallback.
CompressPypdf(r) ==
    /\ upc[r] = "pypdf"
    /\ \E outcome \in PypdfOutcomes, step \in ReplaceSteps :
         disk' = IF outcome = "ok"
                 THEN replace_original(write(disk, output_dir[r], temp_pdf, r),
                                       output_dir[r], temp_pdf, step)
                 ELSE disk
    /\ upc' = [upc EXCEPT ![r] = "compressed"]
    /\ UNCHANGED <<now, output_dir, compiles, returncode, cleanups, escaped>>
    /\ UNCHANGED <<globalVars, layoutVars, fetchVars>>
    /\ UNCHANGED payload
    /\ UNCHANGED <<pureVars, analyzeVars>>

\* Lines 941-954 and app.py lines 94-119: the path returned is that of
\* final_report.pdf; without the file the request ends in an error page, with
\* it the response is made and the cleanup registered on its close.
Respond(r) ==
    /\ upc[r] = "compressed"
    /\ upc' = [upc EXCEPT ![r] =
                 IF exists(disk, output_dir[r], final_pdf_file)
                 THEN "sending" ELSE "no_pdf"]
    /\ UNCHANGED <<now, output_dir, disk, compiles, returncode, cleanups, escaped>>
    /\ UNCHANGED <<globalVars, layoutVars, fetchVars>>
    /\ UNCHANGED payload
    /\ UNCHANGED <<pureVars, analyzeVars>>

\* The server has sent the body and closes the response.
Close(r) ==
    /\ upc[r] = "sending"
    /\ upc' = [upc EXCEPT ![r] = "closed"]
    /\ UNCHANGED <<now, output_dir, disk, compiles, returncode, cleanups, escaped>>
    /\ UNCHANGED <<globalVars, layoutVars, fetchVars>>
    /\ UNCHANGED payload
    /\ UNCHANGED <<pureVars, analyzeVars>>

\* app.py lines 112-117 and lines 957-988: cleanup_temp_files removes what it
\* can of the images and the LaTeX files of the directory, or raises.
Cleanup(r) ==
    /\ cleanup_may_run(upc[r])
    /\ cleanups[r] = 0
    /\ \E outcome \in {"ok", "raises"}, removed \in SUBSET CleanupNames :
         /\ outcome = "ok" => removed = CleanupNames
         /\ outcome = "raises" => removed # CleanupNames
         /\ disk' = {f \in disk : ~(f[1] = output_dir[r] /\ f[2] \in removed)}
         /\ escaped' = [escaped EXCEPT ![r] = cleanup_after_download_raises(outcome)]
    /\ cleanups' = [cleanups EXCEPT ![r] = @ + 1]
    /\ upc' = [upc EXCEPT ![r] = "cleaned"]
    /\ UNCHANGED <<now, output_dir, compiles, returncode>>
    /\ UNCHANGED <<globalVars, layoutVars, fetchVars>>
    /\ UNCHANGED payload
    /\ UNCHANGED <<pureVars, analyzeVars>>

\* ------------------------------------------------- escape_latex, to_roman

\* The ten characters escape_latex replaces, and an ordinary one.
Reserved == {"\\", "_", "%", "&", "#", "$", "{", "}", "^", "~"}
EscapeChars == Reserved \cup {"a"}
Texts == UNION {[1..n -> EscapeChars] : n \in 0..MaxText}

\* Lines 40-54: one call of escape_latex.
Escape ==
    /\ epc = "call"
    /\ esc_result' = escape_latex(esc_text)
    /\ epc' = "returned"
    /\ UNCHANGED <<esc_text, roman>>
    /\ UNCHANGED <<globalVars, layoutVars, fetchVars, uploadVars, analyzeVars>>

\* Line 32: while n > 0.
RomanWhile ==
    /\ roman.pc = "while"
    /\ roman' = [roman EXCEPT !.pc = IF roman.n > 0 THEN "for" ELSE "return"]
    /\ UNCHANGED <<epc, esc_text, esc_result>>
    /\ UNCHANGED <<globalVars, layoutVars, fetchVars, uploadVars, analyzeVars>>

\* Line 33: range(n // val[i]) is evaluated; an index outside the table
\* raises IndexError.
RomanFor ==
    /\ roman.pc = "for"
    /\ roman' = IF roman.i \in 0..(Len(val) - 1)
                THEN [roman EXCEPT !.pc = "body",
                                   !.todo = roman.n \div val[roman.i + 1]]
                ELSE [roman EXCEPT !.pc = "raised"]
    /\ UNCHANGED <<epc, esc_text, esc_result>>
    /\ UNCHANGED <<globalVars, layoutVars, fetchVars, uploadVars, analyzeVars>>

\* Lines 34-35: one pass of the for loop.
RomanAppend ==
    /\ roman.pc = "body" /\ roman.todo > 0
    /\ roman' = [roman EXCEPT !.roman_num = @ \o syb[roman.i + 1],
                              !.n = @ - val[roman.i + 1],
                              !.todo = @ - 1]
    /\ UNCHANGED <<epc, esc_text, esc_result>>
    /\ UNCHANGED <<globalVars, layoutVars, fetchVars, uploadVars, analyzeVars>>

\* Line 36: i += 1, the for loop being over.
RomanAdvance ==
    /\ roman.pc = "body" /\ roman.todo = 0
    /\ roman' = [roman EXCEPT !.i = @ + 1, !.pc = "while"]
    /\ UNCHANGED <<epc, esc_text, esc_result>>
    /\ UNCHANGED <<globalVars, layoutVars, fetchVars, uploadVars, analyzeVars>>

\* ---------------------------------------------------------------- analysis

\* What generate_content can do to the summary request: raise (the call or
\* response.text), return blank text, return text.
SummaryOutcomes == {"exception", "empty", "text"}

\* The value of a key of the JSON object in a response: none, a value that
\* has a length (list, string, object), a value that has none (number, null,
\* true, false).
CategoryValues == {"absent", "sized", "scalar"}
Categories == {"safety", "urgent", "routine"}
\* The object {} and the objects with a key or more.
EmptyObject == [kind |-> "empty", safety |-> "absent", urgent |-> "absent",
                routine |-> "absent"]
Objects == [kind : {"dict"}, safety : CategoryValues, urgent : CategoryValues,
            routine : CategoryValues] \cup {EmptyObject}
\* What generate_content can do to the categorization request: raise, return
\* blank text, text without a pair of braces, braces around what is no JSON,
\* a JSON object.
DeficiencyOutcomes == {"exception", "empty", "no_json", "bad_json", "object"}

\* gemini_ai.py lines 29-94.
generate_executive_summary(en, outcome) ==
    IF ~en THEN "None"
    ELSE IF outcome = "exception" THEN "None"
    ELSE IF outcome = "empty" THEN ""
    ELSE "text"

\* gemini_ai.py lines 96-157: a document without deficiencies is answered
\* with three empty lists and no request.
analyze_deficiencies(en, doc, outcome, obj) ==
    IF ~en THEN NoAnalysis
    ELSE IF doc = "clean"
    THEN [kind |-> "dict", safety |-> "sized", urgent |-> "sized",
          routine |-> "sized"]
    ELSE IF outcome = "object" THEN obj
    ELSE NoAnalysis

\* bool(x) of a result of analyze_deficiencies.
truthy(d) == d.kind = "dict"

\* gemini_ai.py lines 174-177: len(deficiency_analysis.get(key, [])) raises
\* TypeError for a value without a length.
len_raises(d) == \E key \in Categories : d[key] = "scalar"

\* gemini_ai.py lines 159-185.
enhance_summary_insights_sync(d, summary) ==
    [has_ai_analysis |-> summary \notin {"None", ""} \/ truthy(d),
     executive_summary |-> IF summary = "None" THEN "" ELSE summary,
     deficiency_categories |-> IF truthy(d) THEN d ELSE EmptyObject,
     priority_summary |-> truthy(d)]

\* app.py lines 146 and 179-180: json.load of the posted file.
ParseJson ==
    /\ apc = "idle"
    /\ apc' = IF json_data = "invalid" THEN "done" ELSE "parsed"
    /\ reply' = IF json_data = "invalid" THEN 400 ELSE reply
    /\ UNCHANGED <<enabled, json_data, calls, executive_summary,
                   deficiency_analysis, insights>>
    /\ UNCHANGED <<globalVars, layoutVars, fetchVars, uploadVars, pureVars>>

\* app.py lines 149-156: without an API key the request is answered 503, "AI
\* analysis not available".
CheckEnabled ==
    /\ apc = "parsed"
    /\ apc' = IF enabled THEN "summary" ELSE "done"
    /\ reply' = IF enabled THEN reply ELSE 503
    /\ UNCHANGED <<enabled, json_data, calls, executive_summary,
                   deficiency_analysis, insights>>
    /\ UNCHANGED <<globalVars, layoutVars, fetchVars, uploadVars, pureVars>>

\* app.py lines 163-165.
Summarize ==
    /\ apc = "summary"
    /\ \E outcome \in SummaryOutcomes :
         executive_summary' = generate_executive_summary(enabled, outcome)
    /\ calls' = IF enabled THEN calls + 1 ELSE calls
    /\ apc' = "deficiencies"
    /\ UNCHANGED <<enabled, json_data, deficiency_analysis, insights, reply>>
    /\ UNCHANGED <<globalVars, layoutVars, fetchVars, uploadVars, pureVars>>

\* app.py lines 166-168.
Categorize ==
    /\ apc = "deficiencies"
    /\ \E outcome \in DeficiencyOutcomes, obj \in Objects :
         deficiency_analysis'
             = analyze_deficiencies(enabled, json_data, outcome, obj)
    /\ calls' = IF enabled /\ json_data = "deficient" THEN calls + 1 ELSE calls
    /\ apc' = "combine"
    /\ UNCHANGED <<enabled, json_data, executive_summary, insights, reply>>
    /\ UNCHANGED <<globalVars, layoutVars, fetchVars, uploadVars, pureVars>>

\* app.py lines 173-177 and 181-182: the insights are made and sent, or what
\* enhance_summary_insights_sync raises is answered 500, "Analysis failed".
Combine ==
    /\ apc = "combine"
    /\ IF truthy(deficiency_analysis) /\ len_raises(deficiency_analysis)
       THEN /\ reply' = 500
            /\ UNCHANGED insights
       ELSE /\ reply' = 200
            /\ insights' = enhance_summary_insights_sync(deficiency_analysis,
                                                         executive_summary)
    /\ apc' = "done"
    /\ UNCHANGED <<enabled, json_data, calls, executive_summary,
                   deficiency_analysis>>
    /\ UNCHANGED <<globalVars, layoutVars, fetchVars, uploadVars, pureVars>>

\* ---------------------------------------------------------- specifications

FetchOff ==
    /\ rpc = [r \in Runs |-> "off"]
    /\ refs = [r \in Runs |-> <<>>]
    /\ image_urls = [r \in Runs |-> <<>>]
    /\ tasks = [r \in Runs |-> <<>>]
    /\ dirs = {} /\ files = {}
    /\ gets = [r \in Runs |-> [u \in Urls |-> 0]]
    /\ seen = [r \in Runs |-> EmptyCache]

LayoutFrozen == FetchOff /\ UploadOff /\ PureOff /\ AnalyzeOff

\* generate_latex_body over every document within the bounds and every cache
\* of LayoutCaches.
LayoutSpecInit ==
    /\ LayoutInit
    /\ IMAGE_CACHE \in LayoutCaches
    /\ IMAGE_DIR = image_dir_of(1)
    /\ LayoutFrozen

LayoutSpec == LayoutSpecInit /\ [][LayoutNext]_vars

\* The image block of one comment (lines 529-602) over every photo list of up
\* to MaxBlockPhotos photos and every cache of LayoutCaches.
BlockPhotoLists == UNION {[1..n -> Photos] : n \in 0..MaxBlockPhotos}

BlockInit ==
    /\ lpc = "photos"
    /\ i = 1 /\ j = 1 /\ k = 1
    /\ item = [title |-> Name(1), inspectionStatus |-> "I", isDeficient |-> FALSE,
               hasComments |-> TRUE]
    /\ checkbox_str = get_checkboxes("I", FALSE)
    /\ \E photos \in BlockPhotoLists :
         comment = [label |-> Name(1), value |-> NoneSeq, photos |-> photos]
    /\ heads = <<>> /\ subheads = <<>> /\ rows = <<>> /\ texts = <<>>
    /\ out = <<>>
    /\ header = NoHeader
    /\ IMAGE_CACHE \in LayoutCaches
    /\ IMAGE_DIR = default_image_dir
    /\ LayoutFrozen

ImageBlock ==
    /\ lpc = "photos"
    /\ out' = image_block(<<>>, comment.photos)
    /\ lpc' = "block"
    /\ UNCHANGED <<i, j, k, item, comment, checkbox_str, heads, subheads, rows,
                   texts>>
    /\ UNCHANGED <<globalVars, fetchVars, uploadVars>>
    /\ UNCHANGED header
    /\ UNCHANGED <<pureVars, analyzeVars>>

BlockNext == ImageBlock

BlockSpec == BlockInit /\ [][BlockNext]_vars

\* Requests served by the threads of one process: the runs overlap.
FetchInit ==
    /\ FetchInitCommon
    /\ LayoutInit
    /\ rpc = [r \in Runs |-> "idle"]
    /\ refs \in [Runs -> OneRefLists]

FetchNext ==
    \/ \E r \in Runs : ResetCache(r)
    \/ \E r \in Runs : SetImageDir(r)
    \/ \E r \in Runs : Collect(r)
    \/ \E r \in Runs : StartDownload(r)
    \/ \E r \in Runs : \E t \in DOMAIN tasks[r] : TaskStart(r, t)
    \/ \E r \in Runs : \E t \in DOMAIN tasks[r] : TaskFinish(r, t)
    \/ \E r \in Runs : Gather(r)
    \/ \E r \in Runs : RunLayout(r)

FetchSpec == FetchInit /\ [][FetchNext]_vars

\* One run of generate_pdf_from_json, alone in the process.
RunInit ==
    /\ FetchInitCommon
    /\ LayoutInit
    /\ rpc = [r \in Runs |-> IF r = 1 THEN "idle" ELSE "off"]
    /\ refs \in {f \in [Runs -> RefLists] : \A r \in Runs : r # 1 => f[r] = <<>>}

RunSpec == RunInit /\ [][FetchNext]_vars

\* One run in which download_image_async is called once per entry of a url
\* list that may name a url several times.
CallNext ==
    \/ \E r \in Runs : ResetCache(r)
    \/ \E r \in Runs : SetImageDir(r)
    \/ \E r \in Runs : DirectDownload(r)
    \/ \E r \in Runs : StartDownload(r)
    \/ \E r \in Runs : \E t \in DOMAIN tasks[r] : TaskStart(r, t)
    \/ \E r \in Runs : \E t \in DOMAIN tasks[r] : TaskFinish(r, t)
    \/ \E r \in Runs : Gather(r)
    \/ \E r \in Runs : RunLayout(r)

CallSpec == RunInit /\ [][CallNext]_vars

UploadInitCommon ==
    /\ LayoutInit
    /\ IMAGE_CACHE = EmptyCache
    /\ IMAGE_DIR = default_image_dir
    /\ FetchOff
    /\ PureOff /\ AnalyzeOff
    /\ now = 1
    /\ output_dir = [r \in Runs |-> NoDir]
    /\ disk = {}
    /\ compiles = [r \in Runs |-> 0]
    /\ returncode = [r \in Runs |-> 0]
    /\ cleanups = [r \in Runs |-> 0]
    /\ escaped = [r \in Runs |-> FALSE]

UploadNext ==
    \/ Tick
    \/ \E r \in Runs : MakeDir(r)
    \/ \E r \in Runs : Build(r)
    \/ \E r \in Runs : Compile(r)
    \/ \E r \in Runs : Judge(r)
    \/ \E r \in Runs : Compress(r)
    \/ \E r \in Runs : CompressPypdf(r)
    \/ \E r \in Runs : Respond(r)
    \/ \E r \in Runs : Close(r)
    \/ \E r \in Runs : Cleanup(r)

\* Upload requests served by the threads of one process, at any times.
UploadInit ==
    /\ UploadInitCommon
    /\ upc = [r \in Runs |-> "idle"]
    /\ payload = [r \in Runs |-> "ok"]
UploadSpec == UploadInit /\ [][UploadNext]_vars

\* One upload request.
ServeInit ==
    /\ UploadInitCommon
    /\ upc = [r \in Runs |-> IF r = 1 THEN "idle" ELSE "off"]
    /\ payload = [r \in Runs |-> "ok"]
ServeSpec == ServeInit /\ [][UploadNext]_vars

\* One upload request, whatever its file holds.
IntakeInit ==
    /\ UploadInitCommon
    /\ upc = [r \in Runs |-> IF r = 1 THEN "idle" ELSE "off"]
    /\ payload \in {f \in [Runs -> Payloads] : \A r \in Runs : r # 1 => f[r] = "ok"}

IntakeNext ==
    \/ Tick
    \/ \E r \in Runs : RejectJson(r)
    \/ \E r \in Runs : MakeDir(r)
    \/ \E r \in Runs : Build(r)
    \/ \E r \in Runs : Compile(r)
    \/ \E r \in Runs : Judge(r)
    \/ \E r \in Runs : Compress(r)
    \/ \E r \in Runs : CompressPypdf(r)
    \/ \E r \in Runs : Respond(r)
    \/ \E r \in Runs : Close(r)
    \/ \E r \in Runs : Cleanup(r)

IntakeSpec == IntakeInit /\ [][IntakeNext]_vars

\* Nothing but the pure functions is followed.
Quiet ==
    /\ LayoutInit
    /\ IMAGE_CACHE = EmptyCache
    /\ IMAGE_DIR = default_image_dir
    /\ FetchOff /\ UploadOff /\ AnalyzeOff

\* escape_latex over every text of up to MaxText characters, and over a
\* value that is no string.
EscapeInit ==
    /\ Quiet
    /\ epc = "call"
    /\ esc_text \in Texts \cup {NoneSeq}
    /\ esc_result = <<>>
    /\ roman = NoRoman

EscapeNext == Escape

EscapeSpec == EscapeInit /\ [][EscapeNext]_vars

\* to_roman over every n of 0..MaxRoman, followed statement by statement.
RomanInit ==
    /\ Quiet
    /\ epc = "off" /\ esc_text = <<>> /\ esc_result = <<>>
    /\ \E m \in 0..MaxRoman :
         roman = [pc |-> "while", num |-> m, n |-> m, i |-> 0, todo |-> 0,
                  roman_num |-> <<>>]

RomanNext ==
    \/ RomanWhile
    \/ RomanFor
    \/ RomanAppend
    \/ RomanAdvance

RomanSpec == RomanInit /\ [][RomanNext]_vars /\ WF_vars(RomanNext)

\* One request to /analyze: the analyzer with or without its API key, the
\* posted file no JSON, a report without deficiencies or one with some.
AnalyzeInit ==
    /\ LayoutInit
    /\ IMAGE_CACHE = EmptyCache
    /\ IMAGE_DIR = default_image_dir
    /\ FetchOff /\ UploadOff /\ PureOff
    /\ apc = "idle"
    /\ enabled \in BOOLEAN
    /\ json_data \in {"invalid", "clean", "deficient"}
    /\ calls = 0
    /\ executive_summary = "None" /\ deficiency_analysis = NoAnalysis
    /\ insights = NoInsights /\ reply = NoReply

AnalyzeNext ==
    \/ ParseJson
    \/ CheckEnabled
    \/ Summarize
    \/ Categorize
    \/ Combine

AnalyzeSpec == AnalyzeInit /\ [][AnalyzeNext]_vars

\* ------------------------------------------------------------ properties

DOnly == <<square, square, square, boxtimes>>

\* A line item whose iteration is over.
ItemDone == lpc = "items" /\ item # NoItem
\* A comment whose iteration is over.
CommentDone == lpc = "comments" /\ comment # NoComment
InTable == scenario(item.hasComments, item.inspectionStatus) = 4

Checked(boxes) == {n \in DOMAIN boxes : boxes[n] = boxtimes}

\* Index of the first "." of a heading text, and the parts around ". ".
DotAt(text) == CHOOSE p \in 1..(Len(text) + 1) :
                   /\ p <= Len(text) => text[p] = "."
                   /\ \A q \in 1..(p - 1) : text[q] # "."
BeforeDot(text) == SubSeq(text, 1, DotAt(text) - 1)
AfterDot(text) == SubSeq(text, DotAt(text) + 2, Len(text))

\* The n-th sibling's text as it must read once escaped.
EscapedName(n) == <<Lower[n], "\\", "_">>
EscapedUpperName(n) == <<Alphabet[n], "\\", "_">>
EscapedCaption(c) == IF c = NoneSeq THEN NoneSeq ELSE <<"c", "\\", "%">>
EscapedValue == <<"v", "\\", "#">>

Resolved(photo) ==
    /\ photo.url # None
    /\ photo.url \in DOMAIN IMAGE_CACHE
    /\ IMAGE_CACHE[photo.url] # NoneSeq

ResolvedPhotos(photos) == SelectSeq(photos, Resolved)

LinesOfKind(lines, kind) == SelectSeq(lines, LAMBDA l : l.kind = kind)

\* The images of an image block show exactly these photos, in this order.
ShowsPhotos(images, photos) ==
    /\ Len(images) = Len(photos)
    /\ \A n \in DOMAIN photos :
         /\ images[n].path = <<"images", photos[n].url>>
         /\ images[n].caption = EscapedCaption(photos[n].caption)

\* C1: get_checkboxes(status, is_deficient) is determined by its two
\* arguments: deficient checks only D; otherwise status I, NI or NP checks only
\* that box and a null status none; never more than one box is checked.
C1_Checkboxes ==
    item # NoItem =>
        LET status == item.inspectionStatus
            checked == Checked(checkbox_str)
        IN  /\ Len(checkbox_str) = 4
            /\ \A n \in 1..4 : checkbox_str[n] \in {square, boxtimes}
            /\ item.isDeficient => checked = {4}
            /\ ~item.isDeficient /\ status = "I" => checked = {1}
            /\ ~item.isDeficient /\ status = "NI" => checked = {2}
            /\ ~item.isDeficient /\ status = "NP" => checked = {3}
            /\ ~item.isDeficient /\ status = None => checked = {}
            /\ Cardinality(checked) <= 1

C1_Witness ==
    /\ item.isDeficient /\ item.inspectionStatus = "I"
    /\ checkbox_str = DOnly

\* C2 as stated: every deficient line item, whatever its status and with or
\* without comments, is emitted with a checkbox row, and its rows show D
\* checked and nothing else.
C2_DeficientShowsD ==
    ItemDone /\ item.isDeficient =>
        /\ rows # <<>>
        /\ \A n \in DOMAIN rows : rows[n].boxes = DOnly

\* C2 amended: a deficient line item with status I, NI or NP is emitted, with
\* or without comments, with at least one checkbox row and each of its rows
\* shows D checked and nothing else; a deficient line item with a null status
\* is emitted without any checkbox.
C2_DeficientWithStatusShowsD ==
    item # NoItem /\ item.isDeficient =>
        /\ \A n \in DOMAIN rows : rows[n].boxes = DOnly
        /\ \A n \in DOMAIN out : out[n].boxes \in {NoBoxes, DOnly}
        /\ ItemDone /\ item.inspectionStatus # None => rows # <<>>
        /\ item.inspectionStatus # None /\ ~item.hasComments => Len(rows) = 1
        /\ item.inspectionStatus # None /\ item.hasComments => Len(rows) = k
        /\ item.inspectionStatus = None =>
              rows = <<>> /\ \A n \in DOMAIN out : out[n].boxes = NoBoxes

C2_Witness ==
    /\ ItemDone /\ item.isDeficient /\ item.inspectionStatus = "NI"
    /\ item.hasComments /\ Len(rows) = 2
    /\ \A n \in DOMAIN rows : rows[n].boxes = DOnly

\* C7: a photo without url, or whose url the cache does not resolve, is left
\* out of the image block of its comment and nothing else changes: in a table
\* the label row comes first, the image block shows exactly the resolved
\* photos (and is absent when there is none), the value row is there when the
\* comment has a value; as plain text the value is there; and the layout goes
\* on: the comment loop can take its next step.
C7_UnresolvedPhotoOmitted ==
    CommentDone /\ (\E n \in DOMAIN comment.photos : ~Resolved(comment.photos[n])) =>
         LET shown == ResolvedPhotos(comment.photos)
             blocks == LinesOfKind(out, "images")
             values == LinesOfKind(out, "value_row")
         IN  /\ ENABLED EndItem
             /\ InTable =>
                  /\ out[1].kind = "row"
                  /\ out[1].text = <<Digits[k], ".", " ">> \o EscapedName(k)
                  /\ out[1].boxes = checkbox_str
                  /\ Len(blocks) = (IF shown = <<>> THEN 0 ELSE 1)
                  /\ \A n \in DOMAIN blocks : ShowsPhotos(blocks[n].images, shown)
                  /\ Len(values) = (IF comment.value = NoneSeq THEN 0 ELSE 1)
                  /\ \A n \in DOMAIN values : values[n].text = EscapedValue
                  /\ Len(out) = 1 + Len(blocks) + Len(values)
             /\ ~InTable =>
                  /\ Len(out) = (IF comment.value = NoneSeq THEN 0 ELSE 1)
                  /\ \A n \in DOMAIN out :
                       out[n].kind = "text" /\ out[n].text = EscapedValue

C7_Witness ==
    /\ CommentDone /\ InTable
    /\ Len(comment.photos) = 2
    /\ comment.photos[1].url = "u2" /\ ~Resolved(comment.photos[1])
    /\ Resolved(comment.photos[2])
    /\ comment.value # NoneSeq
    /\ Len(out) = 3
    /\ Len(out[2].images) = 1

\* C8: sections, the line items of a section, the comments of a line item and
\* the photos of a comment are emitted in their input order: the n-th heading,
\* subheading, label row and image is that of the n-th section, line item,
\* comment and resolved photo.
C8_InputOrder ==
    /\ Len(heads) = i
    /\ \A n \in DOMAIN heads : AfterDot(heads[n].text) = EscapedUpperName(n)
    /\ lpc \in {"items", "comments", "comment"} =>
         /\ Len(subheads) = j
         /\ \A n \in DOMAIN subheads : AfterDot(subheads[n].text) = EscapedName(n)
    /\ lpc \in {"comments", "comment"} /\ InTable =>
         /\ Len(rows) = k
         /\ \A n \in DOMAIN rows : AfterDot(rows[n].text) = EscapedName(n)
    /\ CommentDone /\ InTable =>
         /\ out[1].kind = "row"
         /\ \A n \in 2..Len(out) :
              \/ out[n].kind = "images" /\ n = 2
              \/ out[n].kind = "value_row" /\ n = Len(out)
         /\ \A n \in DOMAIN out :
              out[n].kind = "images" =>
                  ShowsPhotos(out[n].images, ResolvedPhotos(comment.photos))

C8_Witness ==
    /\ CommentDone /\ InTable
    /\ i = 2 /\ j = 2 /\ k = 2
    /\ Len(out) = 3
    /\ Len(out[2].images) = 2
    /\ out[2].images[1].path = <<"images", "u2">>
    /\ out[2].images[2].path = <<"images", "u1">>

\* The standard numerals of 1..10 and the value a numeral denotes.
StandardNumerals ==
    << <<"I">>, <<"I", "I">>, <<"I", "I", "I">>, <<"I", "V">>, <<"V">>,
       <<"V", "I">>, <<"V", "I", "I">>, <<"V", "I", "I", "I">>, <<"I", "X">>,
       <<"X">> >>

SymbolValue(c) ==
    CASE c = "I" -> 1 [] c = "V" -> 5 [] c = "X" -> 10 [] c = "L" -> 50
      [] c = "C" -> 100 [] c = "D" -> 500 [] c = "M" -> 1000

RECURSIVE RomanValue(_)
RomanValue(numeral) ==
    IF numeral = <<>> THEN 0
    ELSE IF Len(numeral) >= 2 /\ SymbolValue(numeral[1]) < SymbolValue(numeral[2])
         THEN RomanValue(Tail(numeral)) - SymbolValue(numeral[1])
         ELSE RomanValue(Tail(numeral)) + SymbolValue(numeral[1])

\* C9: the k-th section heading carries the standard Roman numeral of k: the
\* numerals denote 1, 2, ..., N, strictly increasing and pairwise distinct.
C9_RomanHeadings ==
    /\ \A n \in DOMAIN heads :
         /\ heads[n].kind = "section"
         /\ BeforeDot(heads[n].text) = StandardNumerals[n]
         /\ RomanValue(BeforeDot(heads[n].text)) = n
    /\ \A m, n \in DOMAIN heads :
         m < n => /\ RomanValue(BeforeDot(heads[m].text))
                       < RomanValue(BeforeDot(heads[n].text))
                  /\ BeforeDot(heads[m].text) # BeforeDot(heads[n].text)

C9_Witness ==
    /\ Len(heads) = 4
    /\ BeforeDot(heads[4].text) = <<"I", "V">>
    /\ BeforeDot(heads[3].text) = <<"I", "I", "I">>

ExpectedLetters == <<"A", "B", "C", "D", "E", "F">>

\* C10: the item at index n of a section (from 0, in input order) is headed
\* with the letter chr('A' + n): A, B, C, ...; the lettering starts again at A
\* in every section, whatever the items hold.
C10_ItemLetters ==
    lpc \in {"items", "comments", "comment"} =>
        /\ Len(subheads) = j
        /\ \A n \in DOMAIN subheads :
             /\ subheads[n].kind = "subsection"
             /\ BeforeDot(subheads[n].text) = <<ExpectedLetters[n]>>

C10_Witness ==
    /\ i = 2 /\ Len(subheads) = 2
    /\ subheads[1].text[1] = "A" /\ subheads[2].text[1] = "B"
    /\ item.isDeficient /\ item.hasComments

Started(task) == task.state \in {"inflight", "done"}
Returned(r) == rpc[r] \in {"fetched", "done"}

\* C3 as stated: overlapping runs are isolated: the layout of a run reads from
\* the cache exactly the results of the run's own fetches, and the fetches of
\* a run write into the run's own image directory.
C3_RunsIsolated ==
    \A r \in Runs : \A t \in DOMAIN tasks[r] :
        /\ Started(tasks[r][t]) => tasks[r][t].filepath[1] = image_dir_of(r)
        /\ rpc[r] = "done" /\ tasks[r][t].state = "done" =>
               seen[r][tasks[r][t].url] = tasks[r][t].result

\* C4 as stated: once download_images_background has returned, every url of
\* the collected list is a key of the cache, whatever its fetch task met.
C4_EveryUrlCached ==
    \A r \in Runs :
        Returned(r) =>
            \A n \in DOMAIN image_urls[r] : image_urls[r][n] \in DOMAIN IMAGE_CACHE

Failures == {"non200", "timeout", "conn_error"}

\* C6 as stated: when download_images_background has returned, every url whose
\* fetch ended in a non-200 response, a timeout, a decode error or a connection
\* error is recorded in the cache as a failure.
C6_FailedUrlsRecordedFailed ==
    \A r \in Runs : \A t \in DOMAIN tasks[r] :
        Returned(r) /\ tasks[r][t].outcome \in Failures \cup {"decode_error"} =>
            /\ tasks[r][t].url \in DOMAIN IMAGE_CACHE
            /\ IMAGE_CACHE[tasks[r][t].url] = NoneSeq

Finishes(r, t) == tasks[r][t].state # "done" /\ tasks'[r][t].state = "done"

FetchStageSound ==
    \A r \in Runs :
        /\ rpc[r] # "raised"
        /\ rpc[r] = "fetching" =>
               \/ ENABLED Gather(r)
               \/ \E t \in DOMAIN tasks[r] : ENABLED TaskStart(r, t)
               \/ \E t \in DOMAIN tasks[r] : ENABLED TaskFinish(r, t)
        /\ \A t \in DOMAIN tasks[r] :
             /\ Returned(r) => tasks[r][t].state \in {"done", "raised"}
             /\ tasks[r][t].outcome \in Failures => tasks[r][t].result = NoneSeq
             /\ tasks[r][t].outcome \in {"ok", "decode_error"} =>
                  /\ tasks[r][t].result = tasks[r][t].filepath
                  /\ tasks[r][t].result \in files

\* C6 amended: the fetch stage never raises and always completes: while it
\* runs, a task or the join can take a step, and it returns only after every
\* task has finished. A fetch that ends in a non-200 response, a timeout or a
\* connection error records its url as a failure when it finishes; a fetch
\* whose response was saved (as JPEG, or raw when it does not decode as an
\* image) records its url with the path of the file; the step that records
\* one url leaves the entry of every other url as it was.
C6_FetchStageCompletes ==
    /\ []FetchStageSound
    /\ [][\A r \in Runs : \A t \in DOMAIN tasks[r] :
             Finishes(r, t) =>
                 /\ tasks'[r][t].url \in DOMAIN IMAGE_CACHE'
                 /\ IMAGE_CACHE'[tasks'[r][t].url] = tasks'[r][t].result
                 /\ \A u \in DOMAIN IMAGE_CACHE \ {tasks'[r][t].url} :
                        u \in DOMAIN IMAGE_CACHE' /\ IMAGE_CACHE'[u] = IMAGE_CACHE[u]]_vars

C6_Witness ==
    /\ rpc[1] = "fetched"
    /\ Len(tasks[1]) = 2
    /\ \E t1, t2 \in DOMAIN tasks[1] :
         /\ tasks[1][t1].outcome = "timeout"
         /\ tasks[1][t2].outcome = "decode_error"
         /\ IMAGE_CACHE[tasks[1][t1].url] = NoneSeq
         /\ IMAGE_CACHE[tasks[1][t2].url] = tasks[1][t2].filepath

\* The checkbox glyphs a status and a deficiency must show.
ExpectedBoxes(status, is_deficient) ==
    IF is_deficient THEN DOnly
    ELSE IF status = "I" THEN <<boxtimes, square, square, square>>
    ELSE IF status = "NI" THEN <<square, boxtimes, square, square>>
    ELSE IF status = "NP" THEN <<square, square, boxtimes, square>>
    ELSE <<square, square, square, square>>

Kinds(lines) == [n \in DOMAIN lines |-> lines[n].kind]

\* C11: a line item without comments and with a status is emitted as a table
\* with one body row: after its heading come the table opening, the header
\* row, one row with the checkboxes of (status, isDeficient) and the text
\* "No comment", and the table end.
C11_NoCommentRow ==
    ItemDone /\ ~item.hasComments /\ item.inspectionStatus # None =>
        /\ Kinds(out) = <<"subsection", "longtable", "header", "row",
                          "end_longtable", "vspace">>
        /\ out[4].text = <<"N", "o", " ", "c", "o", "m", "m", "e", "n", "t">>
        /\ out[4].boxes = ExpectedBoxes(item.inspectionStatus, item.isDeficient)
        /\ rows = <<out[4]>>
        /\ texts = <<>>

C11_Witness ==
    /\ ItemDone /\ ~item.hasComments
    /\ item.inspectionStatus = "NI" /\ ~item.isDeficient
    /\ Len(rows) = 1
    /\ rows[1].boxes = <<square, boxtimes, square, square>>
    /\ i = 1 /\ j = 1

InPlainText == item # NoItem /\ item.hasComments /\ item.inspectionStatus = None

PlainKinds == {"subsection", "text", "vspace"}

\* The plain-text line of a comment's value, none when it has no value.
ValueTexts(c) ==
    IF c.value = NoneSeq THEN <<>>
    ELSE <<[kind |-> "text", text |-> EscapedValue, boxes |-> <<>>,
            images |-> <<>>]>>

\* C12: a line item with comments and a null status is emitted as plain text
\* only: no table opening, header row, checkbox row or image block is appended
\* for it, no line carries checkbox glyphs, and each comment iteration appends
\* the comment's value (when it has one) as text after those of the comments
\* before it.
C12_PlainTextOnly ==
    /\ [](InPlainText =>
            /\ rows = <<>>
            /\ \A n \in DOMAIN out :
                 /\ out[n].kind \in PlainKinds
                 /\ out[n].boxes = <<>>
                 /\ out[n].images = <<>>
            /\ Len(texts) <= k
            /\ \A n \in DOMAIN texts :
                 texts[n].text = EscapedValue /\ texts[n].boxes = <<>>
            /\ CommentDone => out = ValueTexts(comment))
    /\ [][InPlainText /\ lpc = "comment" /\ lpc' = "comments" =>
            texts' = texts \o ValueTexts(comment')]_vars

C12_Witness ==
    /\ InPlainText /\ ItemDone /\ k = 2
    /\ Len(texts) = 2
    /\ item.isDeficient
    /\ Kinds(out) = <<"vspace", "vspace">>

\* The kinds of the lines a comment iteration of a table appends: the label
\* row, the image block when has_images, the value row when has_value.
CommentKinds(has_images, has_value) ==
    <<"row">> \o (IF has_images THEN <<"images">> ELSE <<>>)
              \o (IF has_value THEN <<"value_row">> ELSE <<>>)

\* The rows of an item are its comments' label rows, numbered 1..K in order.
NumberedRows ==
    /\ Len(rows) = k
    /\ \A n \in DOMAIN rows :
         /\ rows[n].text = <<Digits[n], ".", " ">> \o EscapedName(n)
         /\ rows[n].boxes = checkbox_str

\* C13 as stated: every line item with comments, with or without a status, is
\* emitted as a table: the header row once, then per comment the numbered
\* label row with the checkboxes, an image block row if the comment has
\* photos and a text row if it has a value.
C13_CommentsAsTable ==
    item # NoItem /\ item.hasComments =>
        /\ lpc = "comments" /\ k = 0 =>
               Kinds(out) = <<"subsection", "longtable", "header">>
        /\ k >= 1 => \A n \in DOMAIN out : out[n].kind # "header"
        /\ NumberedRows
        /\ CommentDone =>
               Kinds(out) = CommentKinds(comment.photos # <<>>,
                                         comment.value # NoneSeq)

\* C13 amended: a line item with comments and a non-null status is emitted as
\* a table: the header row once, then per comment, in order, the label row
\* numbered 1..K with the item's checkboxes, an image block row if at least
\* one photo of the comment resolves in the cache, and a text row if the
\* comment has a value; then the table end.
C13_StatusAndCommentsAsTable ==
    item # NoItem /\ InTable =>
        /\ lpc = "comments" /\ k = 0 =>
               Kinds(out) = <<"subsection", "longtable", "header">>
        /\ k >= 1 => \A n \in DOMAIN out :
                         out[n].kind \notin {"header", "longtable"}
        /\ NumberedRows
        /\ texts = <<>>
        /\ lpc = "comment" => out = <<rows[k]>>
        /\ CommentDone =>
               /\ Kinds(out) = CommentKinds(ResolvedPhotos(comment.photos) # <<>>,
                                            comment.value # NoneSeq)
               /\ out[1] = rows[k]
               /\ \A n \in DOMAIN out :
                    /\ out[n].kind = "images" =>
                         ShowsPhotos(out[n].images, ResolvedPhotos(comment.photos))
                    /\ out[n].kind = "value_row" => out[n].text = EscapedValue
        /\ ItemDone => Kinds(out) = <<"end_longtable", "vspace">>

C13_Witness ==
    /\ CommentDone /\ InTable /\ k = 2
    /\ Kinds(out) = <<"row", "images", "value_row">>
    /\ Len(comment.photos) = 1
    /\ out[1].text[1] = "2"
    /\ item.inspectionStatus = "NP" /\ ~item.isDeficient

\* <<width, max height>> of the tier for n images.
ExpectedTier(n) ==
    CASE n = 1 -> <<"3.0in", "2.5in">>
      [] n = 2 -> <<"1.8in", "2.0in">>
      [] n = 3 -> <<"1.3in", "1.8in">>
      [] n >= 4 -> <<"1.0in", "1.5in">>

HasTier(image, tier) == image.width = tier[1] /\ image.height = tier[2]

\* C14 as stated: the size tier of the images of a comment's image block is
\* chosen by the number of photos of the comment.
C14_TierByPhotoCount ==
    lpc = "block" =>
        \A n \in DOMAIN out : \A m \in DOMAIN out[n].images :
            HasTier(out[n].images[m], ExpectedTier(Len(comment.photos)))

\* C14 amended: the size tier is chosen by the number of photos of the comment
\* that resolve in the cache, which is the number of images of the block: 1
\* gives 3.0in by 2.5in, 2 gives 1.8in by 2.0in, 3 gives 1.3in by 1.8in, 4 or
\* more 1.0in by 1.5in; without a resolved photo there is no image block.
C14_TierByResolvedCount ==
    lpc = "block" =>
        LET shown == ResolvedPhotos(comment.photos)
        IN  /\ Len(out) = (IF shown = <<>> THEN 0 ELSE 1)
            /\ \A n \in DOMAIN out :
                 /\ out[n].kind = "images"
                 /\ ShowsPhotos(out[n].images, shown)
                 /\ \A m \in DOMAIN out[n].images :
                      HasTier(out[n].images[m], ExpectedTier(Len(shown)))

C14_Witness ==
    /\ lpc = "block"
    /\ Len(comment.photos) = 4
    /\ \A n \in DOMAIN comment.photos : Resolved(comment.photos[n])
    /\ Len(out) = 1 /\ Len(out[1].images) = 4
    /\ \A m \in 1..4 : /\ out[1].images[m].width = "1.0in"
                       /\ out[1].images[m].height = "1.5in"

NoDuplicates(list) == \A a, b \in DOMAIN list : a # b => list[a] # list[b]
Collected(r) == rpc[r] \in {"collected", "fetching", "fetched", "done"}
Launched(r) == rpc[r] \in {"fetching", "fetched", "done"}

\* C15: collect_all_image_urls returns each url the document refers to once,
\* download_images_background launches one task per url of that list, and so
\* a run issues at most one GET for a url, however often the document refers
\* to it.
C15_OneTaskPerUrl ==
    \A r \in Runs :
        /\ Collected(r) =>
             /\ NoDuplicates(image_urls[r])
             /\ {image_urls[r][n] : n \in DOMAIN image_urls[r]}
                    = {refs[r][n] : n \in DOMAIN refs[r]}
        /\ Launched(r) =>
             /\ Len(tasks[r]) = Len(image_urls[r])
             /\ \A n \in DOMAIN tasks[r] : tasks[r][n].url = image_urls[r][n]
        /\ \A u \in Urls :
             gets[r][u] <= Cardinality({n \in DOMAIN image_urls[r] :
                                           image_urls[r][n] = u})
        /\ \A u \in Urls : gets[r][u] <= 1

C15_Witness ==
    /\ refs[1] = <<"u1", "u1">>
    /\ rpc[1] = "fetched"
    /\ Len(tasks[1]) = 1
    /\ tasks[1][1].outcome = "ok"
    /\ gets[1]["u1"] = 1

Answered(task) == task.state = "done" /\ task.status # NoResponse

\* C16 as stated: a fetch succeeds exactly when the response status is 2xx:
\* every 2xx response resolves the url to a local path, every other response
\* records the url as failed and stores no file.
C16_SuccessIff2xx ==
    \A r \in Runs : \A t \in DOMAIN tasks[r] :
        Answered(tasks[r][t]) =>
            IF tasks[r][t].status \in 200..299
            THEN /\ tasks[r][t].result = tasks[r][t].filepath
                 /\ tasks[r][t].filepath \in files
            ELSE tasks[r][t].result = NoneSeq

\* C16 amended: a fetch succeeds only when the response status is 200: a
\* response of any other status, 2xx ones such as 204 included, records the
\* url as failed and the step stores no file; a 200 response whose body is
\* read and written (as JPEG, or raw when it does not decode) resolves the url
\* to the path of the file, and a 200 response whose body is not read in time
\* or not written records the url as failed.
C16_SuccessOnly200 ==
    /\ [](\A r \in Runs : \A t \in DOMAIN tasks[r] :
            Answered(tasks[r][t]) =>
                /\ tasks[r][t].result # NoneSeq => tasks[r][t].status = 200
                /\ tasks[r][t].status # 200 =>
                     tasks[r][t].outcome = "non200" /\ tasks[r][t].result = NoneSeq
                /\ tasks[r][t].status = 200
                      /\ tasks[r][t].outcome \in {"ok", "decode_error"} =>
                     /\ tasks[r][t].result = tasks[r][t].filepath
                     /\ tasks[r][t].filepath \in files
                /\ tasks[r][t].status = 200
                      /\ tasks[r][t].outcome \in {"save_error", "timeout"} =>
                     tasks[r][t].result = NoneSeq)
    /\ [][\A r \in Runs : \A t \in DOMAIN tasks[r] :
            Finishes(r, t) /\ tasks'[r][t].status \notin {200, NoResponse} =>
                /\ files' = files
                /\ IMAGE_CACHE'[tasks'[r][t].url] = NoneSeq]_vars

C16_Witness ==
    /\ rpc[1] = "fetched"
    /\ \E t1, t2 \in DOMAIN tasks[1] :
         /\ tasks[1][t1].status = 204 /\ tasks[1][t1].result = NoneSeq
         /\ tasks[1][t1].filepath \notin files
         /\ tasks[1][t2].status = 200 /\ tasks[1][t2].result \in files

HasDir(r) == output_dir[r] # NoDir
FilesIn(d) == {f \in disk : f[1] = d}
PdfThere(r) == \E f \in FilesIn(output_dir[r]) : f[2] = "final_report.pdf"

\* C17 as stated: every upload request gets an output directory of its own:
\* no two requests use the same directory, and when the generation of a
\* request starts its directory holds no file of another request.
C17_FreshDirectory ==
    \A r \in Runs :
        /\ \A q \in Runs \ {r} :
             HasDir(r) /\ HasDir(q) => output_dir[r] # output_dir[q]
        /\ upc[r] = "made" => \A f \in FilesIn(output_dir[r]) : f[3] = r

Judged(r) ==
    upc[r] \in {"compile_failed", "compressing", "pypdf", "compressed", "sending",
                "no_pdf", "closed", "cleaned"}

AfterCompression(r) ==
    upc[r] \in {"compressed", "sending", "no_pdf", "closed", "cleaned"}

\* C19 as stated: whatever happens to Ghostscript and to the PyPDF2 fallback,
\* compress_pdf returns the path of a PDF that exists, and the request
\* delivers it.
C19_CompressionNeverFails ==
    \A r \in Runs :
        /\ upc[r] = "compressed" => PdfThere(r)
        /\ AfterCompression(r) => upc[r] # "no_pdf"

\* C20: cleanup_temp_files of a request is called only by the step that
\* follows the close of its response, at most once, never while the response
\* is being made or sent, and what it raises does not leave the close handler.
C20_CleanupAfterClose ==
    /\ [](\A r \in Runs :
            /\ ~escaped[r]
            /\ cleanups[r] <= 1
            /\ cleanups[r] = 1 => upc[r] = "cleaned"
            /\ upc[r] = "cleaned" => cleanups[r] = 1)
    /\ [][\A r \in Runs :
            cleanups'[r] # cleanups[r] =>
                /\ upc[r] = "closed" /\ upc'[r] = "cleaned"
                /\ cleanups'[r] = cleanups[r] + 1]_vars

C20_Witness ==
    /\ upc[1] = "cleaned"
    /\ cleanups[1] = 1
    /\ ~escaped[1]
    /\ PdfThere(1)
    /\ \E f \in FilesIn(output_dir[1]) : f[2] = "final_report.tex"

\* The depth of open groups after a text, or -1 where a group is closed that
\* was never opened: a brace right after a backslash opens and closes nothing.
RECURSIVE Depth(_, _, _)
Depth(text, n, open) ==
    IF n > Len(text) THEN open
    ELSE IF text[n] \in {"{", "}"} /\ n > 1 /\ text[n - 1] = "\\"
    THEN Depth(text, n + 1, open)
    ELSE IF text[n] = "{" THEN Depth(text, n + 1, open + 1)
    ELSE IF text[n] = "}"
    THEN (IF open = 0 THEN -1 ELSE Depth(text, n + 1, open - 1))
    ELSE Depth(text, n + 1, open)

Balanced(text) == Depth(text, 1, 0) = 0

\* C23: whatever text of reserved and ordinary characters escape_latex is
\* given, every unescaped opening brace of its result is closed by a later
\* unescaped closing brace and no unescaped closing brace lacks its opener.
C23_BalancedGroups ==
    epc = "returned" => Balanced(esc_result)

\* A text with a backslash, a brace and a circumflex has been escaped.
C23_Witness ==
    /\ epc = "returned"
    /\ esc_text = <<"\\", "{", "^">>
    /\ Len(esc_result) > Len(esc_text)

\* What the claim takes each character to stand for in the result.
Representation(c) ==
    IF c = "\\" THEN textbackslash
    ELSE IF c \in {"^", "~"} THEN <<"\\", c, "{", "}">>
    ELSE IF c \in Reserved THEN <<"\\", c>>
    ELSE <<c>>

RECURSIVE PerCharacter(_)
PerCharacter(text) ==
    IF text = <<>> THEN <<>>
    ELSE Representation(Head(text)) \o PerCharacter(Tail(text))

\* C26: the result of escape_latex is the concatenation of the fixed
\* representations of the characters of its argument, that of a backslash
\* being the backslash command followed by an empty group.
C26_PerCharacter ==
    (epc = "returned" /\ esc_text # NoneSeq)
        => esc_result = PerCharacter(esc_text)

\* The statements of to_roman that read val[i].
ReadsVal == \/ roman.pc = "for"
            \/ roman.pc = "body" /\ roman.todo > 0

RomanSound ==
    /\ roman.pc # "raised"
    /\ roman.n >= 0
    /\ ReadsVal => (roman.i \in 0..12 /\ roman.n > 0)
    /\ roman.pc = "return" => roman.n = 0
    /\ (roman.pc = "return" /\ roman.num = 0) => roman.roman_num = <<>>

\* C27: to_roman returns for every n >= 0; where it reads val[i], i is an
\* index of the 13-entry table and n is positive; n is never negative and is
\* 0 when the loop is left; the result for 0 is the empty string.
C27_RomanTerminates ==
    /\ []RomanSound
    /\ <>(roman.pc = "return")

\* The last entry of the table has been read and the call has returned.
C27_Witness ==
    /\ roman.pc = "return"
    /\ roman.i = 13
    /\ roman.num = 888

\* The text a reader of the markup sees for a text of escape sequences and
\* ordinary characters; a reserved character outside an escape sequence
\* reads as "raw".
RECURSIVE literal_of(_)
literal_of(text) ==
    IF text = <<>> THEN <<>>
    ELSE IF Head(text) = "\\"
    THEN (IF Len(text) >= 18 /\ SubSeq(text, 1, 18) = escape_latex(<<"\\">>)
          THEN <<"\\">> \o literal_of(SubSeq(text, 19, Len(text)))
          ELSE IF Len(text) >= 4 /\ text[2] \in {"^", "~"}
                  /\ text[3] = "{" /\ text[4] = "}"
          THEN <<text[2]>> \o literal_of(SubSeq(text, 5, Len(text)))
          ELSE IF Len(text) >= 2 /\ text[2] \in Reserved \ {"\\", "^", "~"}
          THEN <<text[2]>> \o literal_of(SubSeq(text, 3, Len(text)))
          ELSE <<"raw">>)
    ELSE IF Head(text) \in Reserved THEN <<"raw">>
    ELSE <<Head(text)>> \o literal_of(Tail(text))

\* str of a field: a value that is no string is laid out as the empty text.
given(raw) == IF raw = NoneSeq THEN <<>> ELSE raw

\* The field of the document a line of the latest iteration was laid out from.
RawOf(l) ==
    IF l.kind = "client" THEN given(header.clientInfo)
    ELSE IF l.kind = "address" THEN given(header.fullAddress)
    ELSE IF l.kind = "inspector" THEN given(header.inspector)
    ELSE IF l.kind = "email" THEN given(header.email)
    ELSE IF l.kind = "agent" THEN given(header.agent)
    ELSE IF l.kind = "company" THEN given(header.company)
    ELSE IF l.kind = "section" THEN upper(Name(i))
    ELSE IF l.kind = "subsection" THEN item.title
    ELSE IF l.kind = "row" THEN <<Digits[k], ".", " ">> \o comment.label
    ELSE comment.value

\* The kinds of line that carry a string of the document; a row or a text
\* line does when it belongs to a comment.
UserKinds == {"client", "address", "inspector", "email", "agent", "company",
              "section", "subsection"}
CommentLines == {"row", "value_row", "text"}

Emitted(l) ==
    IF l.kind \in {"section", "subsection"} THEN AfterDot(l.text) ELSE l.text

\* C22: every line of the front pages and of the body that carries a string
\* of the document (client name, address, inspector name and email, agent name
\* and company, section name, item title, comment label, comment value, photo
\* caption) carries it escaped: read back, it is the string given, and no
\* reserved character stands outside an escape sequence, on any branch.
C22_EveryStringEscaped ==
    \A n \in DOMAIN out :
        LET l == out[n]
        IN  /\ l.kind \in UserKinds => literal_of(Emitted(l)) = RawOf(l)
            /\ (l.kind \in CommentLines /\ comment # NoComment)
                   => literal_of(l.text) = RawOf(l)
            /\ l.kind = "images" =>
                  /\ Len(l.images) = Len(ResolvedPhotos(comment.photos))
                  /\ \A m \in DOMAIN l.images :
                       l.images[m].caption # NoneSeq =>
                           literal_of(l.images[m].caption)
                               = ResolvedPhotos(comment.photos)[m].caption

\* The front pages have been laid out for a header whose fields all hold
\* reserved characters.
C22_Witness ==
    /\ lpc = "sections" /\ i = 0
    /\ header.agents
    /\ \A f \in {"clientInfo", "fullAddress", "inspector", "email", "agent",
                  "company"} : header[f] = <<"b", "\\", "$">>
    /\ Len(out) = 12

\* Run r's layout reads the cache in this step.
LayoutReads(r) == rpc[r] = "fetched" /\ rpc'[r] = "done"

\* C25: the layout of a run reads the cache only after the join over its
\* fetch tasks: in that step none of its tasks is still to start or in
\* flight, and every url it collected has its entry in the cache, a path or
\* the failure mark.
C25_LayoutAfterJoin ==
    [][\A r \in Runs :
         LayoutReads(r) =>
             /\ \A t \in DOMAIN tasks[r] :
                  tasks[r][t].state \notin {"new", "inflight"}
             /\ \A n \in DOMAIN image_urls[r] :
                  image_urls[r][n] \in DOMAIN IMAGE_CACHE]_vars

\* The file of request r is malformed: no JSON, or JSON without
\* 'inspection' or without 'sections'.
Malformed(r) == payload[r] \in {"invalid_json", "no_inspection", "no_sections"}

\* C21: a request whose file is malformed never gets an output directory,
\* never has a file written for it and never gets as far as a report: it is
\* idle or has been answered with the error.
C21_MalformedRejected ==
    \A r \in Runs :
        Malformed(r) =>
            /\ output_dir[r] = NoDir
            /\ \A f \in disk : f[3] # r
            /\ upc[r] \in {"off", "idle", "invalid_json"}

\* C24: without its API key the analyzer makes no request and the endpoint
\* answers with the disabled state (503); with it, whatever the two requests
\* come to, the request to /analyze ends with the insights (200), never with
\* an error.
C24_AnalysisNeverFatal ==
    /\ ~enabled => calls = 0
    /\ (apc = "done" /\ json_data # "invalid") =>
           reply = IF enabled THEN 200 ELSE 503

====
